---- MODULE Spec2Model ----
(***************************************************************************)
(* GrooveX / PlayWise music engine: the playlist engine (doubly linked     *)
(* list, lookup map, duplicate cleaner, artist blocklist, action logger,   *)
(* constrained shuffle, alternating merge), the favorites queue, the       *)
(* recommender with the playlist explorer and the skipped tracker, and the *)
(* playback controller with its history stack and auto replay.             *)
(*                                                                         *)
(* Encodings: a Python str is a sequence of one-character strings; None is *)
(* 0 (song ids and node references are positive); a dict is a function     *)
(* whose DOMAIN is its key set; a raised exception is the exc field of an  *)
(* operation's result, and the state it carries is the partly mutated one. *)
(***************************************************************************)
EXTENDS Integers, Sequences, FiniteSets, TLC

\* ------------------------------------------------------------------ bounds
MaxOps == 5         \* calls made on a playlist since its construction
MaxSize == 3        \* add operations are offered while size < MaxSize
MaxNodes == 5       \* Node objects alive at once
MaxHistory == 2     \* max_undo_history the playlists are constructed with
MaxUndoN == 3       \* largest n passed to undo_last_n_actions
MaxOther == 2       \* longest second playlist handed to merge_alternately
MaxFavOps == 5      \* calls made on a favorites queue since its construction
MaxDelta == 2       \* largest delta_seconds passed to record_listen
MaxTopN == 2        \* largest n passed to get_top_n
MaxPairOps == 6     \* calls made on a pair of favorites queues
MaxRecOps == 6      \* calls made on a recommender and what it is wired to
MaxPlays == 3       \* record_play calls made on a recommender
MaxWindow == 2      \* window_size the recommender is constructed with
MaxSkipped == 2     \* capacity the skipped tracker is constructed with
MaxShuffleLen == 3  \* longest list handed to shuffle_with_constraints
MaxArrangeLen == 4  \* longest list handed to _is_arrangement_possible
MaxShuffleAttempts == 1  \* largest max_attempts a shuffler is constructed with
MaxCtlOps == 5      \* calls made on a playback controller
MaxSetupOps == 3    \* calls made on a controller before play_next repeats
MaxPlayed == 12     \* plays a controller's history holds while play_next repeats
MaxReadOps == 6     \* calls made on a favorites queue whose clock ticks per listen

None == 0

\* ----------------------------------------------------------------- strings
IsSpace(c) == c = " "

Lower(c) ==
  CASE c = "A" -> "a"
    [] c = "B" -> "b"
    [] c = "J" -> "j"
    [] c = "X" -> "x"
    [] c = "Y" -> "y"
    [] OTHER -> c

LowerStr(s) == [i \in 1..Len(s) |-> Lower(s[i])]

RECURSIVE LStrip(_)
LStrip(s) == IF s # <<>> /\ IsSpace(Head(s)) THEN LStrip(Tail(s)) ELSE s

RECURSIVE RStrip(_)
RStrip(s) ==
  IF s # <<>> /\ IsSpace(s[Len(s)]) THEN RStrip(SubSeq(s, 1, Len(s) - 1)) ELSE s

Strip(s) == RStrip(LStrip(s))

\* re.sub(r'\s+', ' ', s): every run of whitespace becomes one space
RECURSIVE CollapseSpaces(_)
CollapseSpaces(s) ==
  IF s = <<>> THEN <<>>
  ELSE IF IsSpace(Head(s)) THEN <<" ">> \o CollapseSpaces(LStrip(s))
  ELSE <<Head(s)>> \o CollapseSpaces(Tail(s))

\* duplicate_cleaner.normalize
normalize(text) ==
  IF text = <<>> THEN <<>> ELSE CollapseSpaces(LowerStr(Strip(text)))

\* DuplicateCleaner._make_key: f"{normalize(title)}|{normalize(artist)}"
MakeKey(title, artist) == normalize(title) \o <<"|">> \o normalize(artist)

\* ArtistBlocklist._normalize_artist
NormalizeArtist(artist) ==
  IF artist = <<>> THEN <<>> ELSE LowerStr(Strip(artist))

\* ------------------------------------------------------------------- songs
Song(title, artist, duration, song_id) ==
  [title |-> title, artist |-> artist, duration |-> duration,
   song_id |-> song_id, play_count |-> 0]

NoSong == Song(<<>>, <<>>, 0, None)

\* ------------------------------------------------------------------- dicts
EmptyDict == <<>>
Put(m, k, v) == [x \in (DOMAIN m) \cup {k} |-> IF x = k THEN v ELSE m[x]]
Del(m, k) == [x \in (DOMAIN m) \ {k} |-> m[x]]

\* ----------------------------------------------------- operation results
RetNone == [tag |-> "None", id |-> 0, list |-> <<>>]
RetBlocked == [tag |-> "BLOCKED_ARTIST", id |-> 0, list |-> <<>>]
RetId(i) == [tag |-> "id", id |-> i, list |-> <<>>]
RetTrue == [tag |-> "True", id |-> 0, list |-> <<>>]
RetFalse == [tag |-> "False", id |-> 0, list |-> <<>>]
RetList(l) == [tag |-> "list", id |-> 0, list |-> l]

\* how a call ended: the playlist it leaves, and what it returned or raised
Ok(p, r) == [pl |-> p, ret |-> r, exc |-> "none"]
Raise(p, e) == [pl |-> p, ret |-> RetNone, exc |-> e]

\* r was the last statement that can raise; ret is returned after it
ThenReturn(r, ret) == IF r.exc # "none" THEN r ELSE Ok(r.pl, ret)

\* --------------------------------------------------------- linked_list.Node
BlankNode == [song |-> NoSong, prev |-> 0, next |-> 0]
Node(song) == [song |-> song, prev |-> 0, next |-> 0]

RECURSIVE ReachFrom(_, _, _)
ReachFrom(nodes, frontier, seen) ==
  IF frontier = {} THEN seen
  ELSE ReachFrom(nodes,
                 ({nodes[n].next : n \in frontier}
                    \cup {nodes[n].prev : n \in frontier}) \ (seen \cup {0}),
                 seen \cup {nodes[n].next : n \in frontier}
                      \cup {nodes[n].prev : n \in frontier})

\* the Node objects the interpreter keeps alive: those referenced, directly
\* or through prev/next, from the list's head and tail
Reach(p) ==
  ReachFrom(p.nodes, {p.head, p.tail} \ {0}, {p.head, p.tail}) \ {0}

MinOf(S) == CHOOSE n \in S : \A m \in S : n <= m

\* the address a fresh Node gets (0: none left within MaxNodes)
Alloc(p) ==
  IF (1..MaxNodes) \subseteq Reach(p) THEN 0
  ELSE MinOf((1..MaxNodes) \ Reach(p))

\* for _ in range(k): current = current.next   (-1: None.next was read)
RECURSIVE Walk(_, _, _)
Walk(nodes, start, k) ==
  IF k <= 0 THEN start
  ELSE IF start = 0 THEN -1
  ELSE Walk(nodes, nodes[start].next, k - 1)

\* ------------------------------------------------ playlist_engine.DoublyLinkedList
\* add_song, n being the new Node
AppendNode(p, song, n) ==
  IF n = 0 THEN Raise(p, "OutOfNodes")
  ELSE IF p.head = 0
  THEN Ok([p EXCEPT !.nodes[n] = Node(song), !.head = n, !.tail = n,
                    !.size = @ + 1], RetNone)
  ELSE IF p.tail = 0 THEN Raise(p, "AttributeError")
  ELSE Ok([p EXCEPT !.nodes[n] = [song |-> song, prev |-> p.tail, next |-> 0],
                    !.nodes[p.tail].next = n,
                    !.tail = n, !.size = @ + 1], RetNone)

DLLAddSong(p, song) == AppendNode(p, song, Alloc(p))

\* if current.prev: current.prev.next = current.next / else: head = current.next
UnlinkPrev(p, current) ==
  IF p.nodes[current].prev # 0
  THEN [p EXCEPT !.nodes[p.nodes[current].prev].next = p.nodes[current].next]
  ELSE [p EXCEPT !.head = p.nodes[current].next]

\* if current.next: current.next.prev = current.prev / else: tail = current.prev
UnlinkNext(p, current) ==
  IF p.nodes[current].next # 0
  THEN [p EXCEPT !.nodes[p.nodes[current].next].prev = p.nodes[current].prev]
  ELSE [p EXCEPT !.tail = p.nodes[current].prev]

\* the unlink both delete_song and move_song perform on `current`
Unlink(p, current) == UnlinkNext(UnlinkPrev(p, current), current)

DeleteNode(p, current) ==
  IF current <= 0 THEN Raise(p, "AttributeError")
  ELSE Ok([Unlink(p, current) EXCEPT !.size = @ - 1], RetNone)

DLLDeleteSong(p, index) ==
  IF index < 0 \/ index >= p.size THEN Raise(p, "IndexError")
  ELSE DeleteNode(p, Walk(p.nodes, p.head, index))

\* current.next = self.head
SetNextToHead(p, current) == [p EXCEPT !.nodes[current].next = p.head]

\* if self.head: self.head.prev = current
SetHeadBackLink(p, current) ==
  IF p.head # 0 THEN [p EXCEPT !.nodes[p.head].prev = current] ELSE p

\* current.prev = None; head = current; if tail is None: tail = current
MakeHead(p, current) ==
  [p EXCEPT !.nodes[current].prev = 0, !.head = current,
            !.tail = IF @ = 0 THEN current ELSE @]

\* move_song, to_index == 0: current becomes the head
RelinkAtHead(p, current) ==
  MakeHead(SetHeadBackLink(SetNextToHead(p, current), current), current)

\* current.next = target.next
SetNextFromTarget(p, current, target) ==
  [p EXCEPT !.nodes[current].next = p.nodes[target].next]

\* if target.next: target.next.prev = current
SetBackLink(p, current, target) ==
  IF p.nodes[target].next # 0
  THEN [p EXCEPT !.nodes[p.nodes[target].next].prev = current]
  ELSE p

\* current.prev = target; target.next = current
LinkAfterTarget(p, current, target) ==
  [[p EXCEPT !.nodes[current].prev = target]
      EXCEPT !.nodes[target].next = current]

\* move_song, to_index > 0: current goes after target; tail is not assigned
RelinkAfter(p, current, target) ==
  IF target <= 0 THEN Raise(p, "AttributeError")
  ELSE Ok(LinkAfterTarget(
            SetBackLink(SetNextFromTarget(p, current, target), current, target),
            current, target), RetNone)

\* p: the list with current unlinked
Reinsert(p, current, to_index) ==
  IF to_index = 0 THEN Ok(RelinkAtHead(p, current), RetNone)
  ELSE RelinkAfter(p, current, Walk(p.nodes, p.head, to_index - 1))

MoveNode(p, current, to_index) ==
  IF current <= 0 THEN Raise(p, "AttributeError")
  ELSE Reinsert(Unlink(p, current), current, to_index)

\* move_song without the upper bound on to_index
DLLMoveSongUnchecked(p, from_index, to_index) ==
  IF from_index < 0 \/ from_index >= p.size \/ to_index < 0
  THEN Raise(p, "IndexError")
  ELSE IF from_index = to_index THEN Ok(p, RetNone)
  ELSE MoveNode(p, Walk(p.nodes, p.head, from_index), to_index)

DLLMoveSong(p, from_index, to_index) ==
  IF from_index < 0 \/ from_index >= p.size
       \/ to_index < 0 \/ to_index >= p.size
  THEN Raise(p, "IndexError")
  ELSE IF from_index = to_index THEN Ok(p, RetNone)
  ELSE MoveNode(p, Walk(p.nodes, p.head, from_index), to_index)

\* the while loop of reverse_playlist
RECURSIVE ReverseLoop(_, _, _)
ReverseLoop(nodes, current, prev_node) ==
  IF current = 0 THEN [nodes |-> nodes, prev_node |-> prev_node]
  ELSE ReverseLoop([nodes EXCEPT ![current] =
                      [@ EXCEPT !.next = prev_node,
                                 !.prev = nodes[current].next]],
                   nodes[current].next, current)

\* a reversal that moved head and left tail where it was
ReversedKeepingTail(p, r) ==
  [p EXCEPT !.nodes = r.nodes, !.head = r.prev_node]

Reversed(p, r) ==
  [p EXCEPT !.tail = p.head, !.nodes = r.nodes, !.head = r.prev_node]

DLLReversePlaylist(p) ==
  Ok(Reversed(p, ReverseLoop(p.nodes, p.head, 0)), RetNone)

\* get_all_songs: follow next from head (a chain longer than MaxNodes nodes
\* would be a loop; see NoNodeLoop)
RECURSIVE Chain(_, _, _)
Chain(nodes, node, fuel) ==
  IF node = 0 \/ fuel = 0 THEN <<>>
  ELSE <<node>> \o Chain(nodes, nodes[node].next, fuel - 1)

HeadChain(p) == Chain(p.nodes, p.head, MaxNodes + 1)

\* addresses are not observable: renumber the live nodes in the order a
\* traversal from head, then tail, meets them, and drop the dead ones
RECURSIVE Visit(_, _, _)
Visit(nodes, todo, seen) ==
  IF todo = <<>> THEN seen
  ELSE IF Head(todo) = 0 \/ (\E i \in 1..Len(seen) : seen[i] = Head(todo))
  THEN Visit(nodes, Tail(todo), seen)
  ELSE Visit(nodes,
             <<nodes[Head(todo)].next, nodes[Head(todo)].prev>> \o Tail(todo),
             Append(seen, Head(todo)))

NewAddress(seen, n) ==
  IF n = 0 THEN 0 ELSE CHOOSE i \in 1..Len(seen) : seen[i] = n

RenumberAs(p, seen) ==
  [p EXCEPT
     !.head = NewAddress(seen, p.head),
     !.tail = NewAddress(seen, p.tail),
     !.nodes = [i \in 1..MaxNodes |->
                  IF i <= Len(seen)
                  THEN [song |-> p.nodes[seen[i]].song,
                        prev |-> NewAddress(seen, p.nodes[seen[i]].prev),
                        next |-> NewAddress(seen, p.nodes[seen[i]].next)]
                  ELSE BlankNode]]

Renumber(p) == RenumberAs(p, Visit(p.nodes, <<p.head, p.tail>>, <<>>))

\* ---------------------------------------- duplicate_cleaner.DuplicateCleaner
IsDuplicate(p, title, artist) ==
  MakeKey(title, artist) \in DOMAIN p.key_to_song_id

Register(p, song_id, title, artist) ==
  [p EXCEPT !.key_to_song_id = Put(@, MakeKey(title, artist), song_id)]

Deregister(p, song_id, title, artist) ==
  IF MakeKey(title, artist) \in DOMAIN p.key_to_song_id
  THEN [p EXCEPT !.key_to_song_id = Del(@, MakeKey(title, artist))]
  ELSE p

\* returns None (0) or the id the key is registered under, which is None for
\* a song registered without an id
CleanupOnAdd(p, song) ==
  IF IsDuplicate(p, song.title, song.artist) /\ p.keep = "first"
  THEN [pl |-> p, id |-> p.key_to_song_id[MakeKey(song.title, song.artist)]]
  ELSE [pl |-> Register(p, song.song_id, song.title, song.artist),
        id |-> None]

\* ------------------------------------------------- lookup_map.SongLookupMap
\* id_map[song.song_id] = song (when it has an id); title_map[title] = song
StoreInMaps(p, song) ==
  [p EXCEPT !.id_map = IF song.song_id # None THEN Put(@, song.song_id, song)
                       ELSE @,
            !.title_map = Put(@, song.title, song)]

RegisterIfDedupe(p, song) ==
  IF p.enable_dedupe THEN Register(p, song.song_id, song.title, song.artist)
  ELSE p

\* add_song after the duplicate check returned c
StoreUnlessDuplicate(c, song) ==
  IF c.id # None THEN c
  ELSE [pl |-> RegisterIfDedupe(StoreInMaps(c.pl, song), song), id |-> None]

LookupAddSong(p, song) ==
  StoreUnlessDuplicate(IF p.enable_dedupe THEN CleanupOnAdd(p, song)
                       ELSE [pl |-> p, id |-> None], song)

\* remove_song after id_map.pop(song_id) returned song
DropTitle(p, song_id, song) ==
  IF song.title \in DOMAIN p.title_map
  THEN IF p.enable_dedupe
       THEN Deregister([p EXCEPT !.title_map = Del(@, song.title)],
                       song_id, song.title, song.artist)
       ELSE [p EXCEPT !.title_map = Del(@, song.title)]
  ELSE p

LookupRemoveSong(p, song_id) ==
  IF song_id \in DOMAIN p.id_map
  THEN DropTitle([p EXCEPT !.id_map = Del(@, song_id)], song_id,
                 p.id_map[song_id])
  ELSE p

\* ---------------------------------------------- artist_blocklist.ArtistBlocklist
IsBlocked(p, artist) == NormalizeArtist(artist) \in p.blocked

BlocklistAddArtist(p, artist) ==
  [p EXCEPT !.blocked = @ \cup {NormalizeArtist(artist)}]

BlocklistRemoveArtist(p, artist) ==
  [p EXCEPT !.blocked = @ \ {NormalizeArtist(artist)}]

\* ------------------------------------------------- action_logger.ActionLogger
\* an Action: its kind and what its undo closure has captured
Entry(kind, song, i, j) == [kind |-> kind, song |-> song, i |-> i, j |-> j]

\* a bounded log that dropped the newest entries instead of the oldest
KeepOldest(l, n) ==
  IF Len(l) > n THEN SubSeq(l, 1, n) ELSE l

\* what deque(maxlen=n) keeps of the sequence l
KeepNewest(l, n) ==
  IF Len(l) > n THEN SubSeq(l, Len(l) - n + 1, Len(l)) ELSE l

LogAction(p, entry) ==
  [p EXCEPT !.log = KeepNewest(Append(@, entry), p.max_history)]

SetMaxHistory(p, max_history) ==
  IF max_history <= 0 THEN Raise(p, "ValueError")
  ELSE Ok([p EXCEPT !.log = KeepNewest(@, max_history),
                    !.max_history = max_history], RetNone)

\* r was the call that can raise; the action is logged after it
ThenLog(r, entry, ret) ==
  IF r.exc # "none" THEN r ELSE Ok(LogAction(r.pl, entry), ret)

\* -------------------------------------------------------- playlist.Playlist
NewPlaylist(policy) ==
  [head |-> 0, tail |-> 0, size |-> 0,
   nodes |-> [n \in 1..MaxNodes |-> BlankNode],
   id_map |-> EmptyDict, title_map |-> EmptyDict,
   enable_dedupe |-> TRUE, keep |-> policy, key_to_song_id |-> EmptyDict,
   blocked |-> {}, log |-> <<>>, max_history |-> MaxHistory]

SongsAt(p, chain) == [i \in 1..Len(chain) |-> p.nodes[chain[i]].song]

GetAllSongs(p) == SongsAt(p, HeadChain(p))

IsEmpty(p) == p.head = 0

\* delete_song once `song` has been read from the node at index
DeleteKnownSong(p, index, song) ==
  ThenLog(DLLDeleteSong(IF song.song_id # None
                        THEN LookupRemoveSong(p, song.song_id) ELSE p, index),
          Entry("delete", song, index, 0), RetTrue)

DeleteAtNode(p, index, current) ==
  IF current <= 0 THEN Raise(p, "AttributeError")
  ELSE DeleteKnownSong(p, index, p.nodes[current].song)

PlaylistDeleteSong(p, index) ==
  IF index < 0 \/ index >= p.size THEN Raise(p, "IndexError")
  ELSE DeleteAtNode(p, index, Walk(p.nodes, p.head, index))

\* add_song after lookup_map.add_song returned l
AppendUnlessDuplicate(l, song) ==
  IF l.id # None THEN Ok(l.pl, RetId(l.id))
  ELSE ThenLog(DLLAddSong(l.pl, song), Entry("add", NoSong, l.pl.size, 0),
               RetNone)

PlaylistAddSong(p, title, artist, duration, song_id) ==
  IF IsBlocked(p, artist) THEN Ok(p, RetBlocked)
  ELSE AppendUnlessDuplicate(
         LookupAddSong(p, Song(title, artist, duration, song_id)),
         Song(title, artist, duration, song_id))

\* add_existing_song after lookup_map.add_song returned l
AppendExistingUnlessDuplicate(l, song) ==
  IF l.id # None THEN Ok(l.pl, RetId(l.id)) ELSE DLLAddSong(l.pl, song)

AddExistingSong(p, song) ==
  IF IsBlocked(p, song.artist) THEN Ok(p, RetBlocked)
  ELSE AppendExistingUnlessDuplicate(LookupAddSong(p, song), song)

PlaylistMoveSong(p, from_index, to_index) ==
  ThenLog(DLLMoveSong(p, from_index, to_index),
          Entry("move", NoSong, from_index, to_index), RetNone)

PlaylistReversePlaylist(p) ==
  ThenLog(DLLReversePlaylist(p), Entry("reverse", NoSong, 0, 0), RetNone)

\* pop_next with a head whose song is s
PopSong(p, s) ==
  ThenReturn(DLLDeleteSong(IF s.song_id # None
                           THEN LookupRemoveSong(p, s.song_id) ELSE p, 0),
             RetList(<<s>>))

PopNext(p) ==
  IF p.head = 0 THEN Ok(p, RetNone) ELSE PopSong(p, p.nodes[p.head].song)

\* _insert_song_at_index, index == 0, n being the new Node
InsertAtHead(p, song, n) ==
  IF n = 0 THEN Raise(p, "OutOfNodes")
  ELSE Ok([SetHeadBackLink([p EXCEPT !.nodes[n] =
                              [song |-> song, prev |-> 0, next |-> p.head]], n)
             EXCEPT !.head = n,
                    !.tail = IF @ = 0 THEN n ELSE @,
                    !.size = @ + 1], RetNone)

\* if current.prev: current.prev.next = new_node / else: head = new_node
LinkFromPrev(p, current, n) ==
  IF p.nodes[current].prev # 0
  THEN [p EXCEPT !.nodes[p.nodes[current].prev].next = n]
  ELSE [p EXCEPT !.head = n]

\* _insert_song_at_index, 0 < index < size: before the node at index
InsertBefore(p, song, current, n) ==
  IF current <= 0 THEN Raise(p, "AttributeError")
  ELSE IF n = 0 THEN Raise(p, "OutOfNodes")
  ELSE Ok([LinkFromPrev([p EXCEPT !.nodes[n] =
                           [song |-> song, prev |-> p.nodes[current].prev,
                            next |-> current]], current, n)
             EXCEPT !.nodes[current].prev = n, !.size = @ + 1], RetNone)

\* _insert_song_at_index after lookup_map.add_song(song)
InsertNodeAt(p, song, index) ==
  IF index = 0 THEN InsertAtHead(p, song, Alloc(p))
  ELSE IF index >= p.size THEN DLLAddSong(p, song)
  ELSE InsertBefore(p, song, Walk(p.nodes, p.head, index), Alloc(p))

InsertSongAtIndex(p, song, index) ==
  InsertNodeAt(LookupAddSong(p, song).pl, song, index)

\* the undo closure each logging operation captures
RunUndo(p, e) ==
  CASE e.kind = "add" -> PlaylistDeleteSong(p, e.i)
    [] e.kind = "delete" ->
         InsertSongAtIndex(p,
           Song(e.song.title, e.song.artist, e.song.duration, e.song.song_id),
           e.i)
    [] e.kind = "move" -> DLLMoveSong(p, e.j, e.i)
    [] OTHER -> DLLReversePlaylist(p)

\* one pass of the for loop of ActionLogger.undo_last_n_actions; r.ret.list
\* is undone_actions
UndoOne(r) ==
  IF r.pl.log = <<>> THEN r
  ELSE ThenReturn(RunUndo([r.pl EXCEPT !.log = SubSeq(@, 1, Len(@) - 1)],
                          r.pl.log[Len(r.pl.log)]),
                  RetList(Append(r.ret.list, r.pl.log[Len(r.pl.log)].kind)))

RECURSIVE UndoLoop(_, _)
UndoLoop(r, k) ==
  IF k = 0 \/ r.exc # "none" THEN r ELSE UndoLoop(UndoOne(r), k - 1)

Min(a, b) == IF a <= b THEN a ELSE b

UndoLastNActions(p, n) ==
  IF n <= 0 THEN Ok(p, RetList(<<>>))
  ELSE UndoLoop(Ok(p, RetList(<<>>)), Min(n, Len(p.log)))

\* ------------------------------------------ constrained_shuffle.ConstrainedShuffler
MaxAttempts == 1000

\* the orders random.shuffle can leave a list of n elements in
Perms(n) ==
  {f \in [1..n -> 1..n] : \A i, j \in 1..n : i # j => f[i] # f[j]}

Permuted(songs, f) == [i \in 1..Len(songs) |-> songs[f[i]]]

\* a check that compares the artists as they are spelled
HasConsecutiveArtistsAsSpelled(songs) ==
  \E i \in 1..(Len(songs) - 1) : songs[i].artist = songs[i + 1].artist

HasConsecutiveArtists(songs) ==
  \E i \in 1..(Len(songs) - 1) :
    LowerStr(songs[i].artist) = LowerStr(songs[i + 1].artist)

ArtistCount(songs, artist_key) ==
  Cardinality({i \in 1..Len(songs) : LowerStr(songs[i].artist) = artist_key})

\* a threshold of n // 2
IsArrangementPossibleHalf(songs) ==
  Len(songs) <= 1
    \/ \A i \in 1..Len(songs) :
         ArtistCount(songs, LowerStr(songs[i].artist)) <= Len(songs) \div 2

IsArrangementPossible(songs) ==
  Len(songs) <= 1
    \/ \A i \in 1..Len(songs) :
         ArtistCount(songs, LowerStr(songs[i].artist)) <= (Len(songs) + 1) \div 2

\* shuffle_with_constraints can return `shuffled` for `songs`: any order when
\* no arrangement is possible; else an order an attempt accepts, or the
\* original order when every one of the max_attempts attempts drew a
\* rejected order
CanShuffleTo(songs, shuffled) ==
  IF Len(songs) <= 1 THEN shuffled = songs
  ELSE IF ~IsArrangementPossible(songs) THEN TRUE
  ELSE IF MaxAttempts > 0 /\ ~HasConsecutiveArtists(shuffled) THEN TRUE
  ELSE shuffled = songs
         /\ (MaxAttempts = 0
               \/ \E f \in Perms(Len(songs)) :
                    HasConsecutiveArtists(Permuted(songs, f)))

\* result = songs.copy(); random.shuffle(result), the shuffle drawing the
\* order f: what is returned and what the caller's list holds afterwards
ShuffledInPlace(songs, f) ==
  [result |-> Permuted(songs, f), songs |-> Permuted(songs, f)]

ShuffledCopy(songs, f) == [result |-> Permuted(songs, f), songs |-> songs]

\* the outcome of shuffle_with_constraints: the list returned, the caller's
\* list, the return statement reached, the shuffled lists the loop rejected
Outcome(c, path, tried) ==
  [result |-> c.result, songs |-> c.songs, path |-> path, tried |-> tried]

\* whether the k-th attempt is accepted, draws[k] being the order it draws
Accepts(songs, draws, k) == ~HasConsecutiveArtists(Permuted(songs, draws[k]))

\* for _ in range(self._max_attempts), from the k-th attempt on
RECURSIVE AttemptLoop(_, _, _, _, _)
AttemptLoop(songs, max_attempts, draws, k, tried) ==
  IF k > max_attempts
  THEN Outcome([result |-> songs, songs |-> songs], "exhausted", tried)
  ELSE IF Accepts(songs, draws, k)
  THEN Outcome(ShuffledCopy(songs, draws[k]), "accepted", tried)
  ELSE AttemptLoop(songs, max_attempts, draws, k + 1,
                   Append(tried, Permuted(songs, draws[k])))

\* ConstrainedShuffler(max_attempts).shuffle_with_constraints(songs), the
\* random.shuffle calls drawing the orders draws[1], draws[2], ...
ShuffleWithConstraints(songs, max_attempts, draws) ==
  IF Len(songs) <= 1
  THEN Outcome([result |-> songs, songs |-> songs], "short", <<>>)
  ELSE IF ~IsArrangementPossible(songs)
  THEN Outcome(ShuffledCopy(songs, draws[1]), "impossible", <<>>)
  ELSE AttemptLoop(songs, max_attempts, draws, 1, <<>>)

\* -------------------------------------------------- playlist.Playlist, continued
\* while not self.is_empty(): self.delete_song(0)
RECURSIVE ClearLoop(_, _)
ClearLoop(r, fuel) ==
  IF r.exc # "none" \/ IsEmpty(r.pl) \/ fuel = 0 THEN r
  ELSE ClearLoop(PlaylistDeleteSong(r.pl, 0), fuel - 1)

\* for song in songs: self.add_existing_song(song), from the i-th on
RECURSIVE AddAll(_, _, _)
AddAll(r, songs, i) ==
  IF r.exc # "none" \/ i > Len(songs) THEN r
  ELSE AddAll(AddExistingSong(r.pl, songs[i]), songs, i + 1)

\* shuffle_with_artist_constraints when the shuffler returned `shuffled`
ShuffleWithArtistConstraints(p, shuffled) ==
  ThenReturn(AddAll(ClearLoop(Ok(p, RetNone), p.size + 1), shuffled, 1),
             RetList(shuffled))

DefaultMaxHistory == 50

\* Playlist(): dedupe on, policy 'first', max_undo_history 50
DefaultPlaylist == [NewPlaylist("first") EXCEPT !.max_history = DefaultMaxHistory]

\* the order in which merge_alternately's three loops hand the songs over
RECURSIVE MergeOrder(_, _)
MergeOrder(songs1, songs2) ==
  IF songs1 = <<>> THEN songs2
  ELSE IF songs2 = <<>> THEN songs1
  ELSE <<Head(songs1), Head(songs2)>> \o MergeOrder(Tail(songs1), Tail(songs2))

\* merge_alternately: r.pl is the merged playlist
MergeAlternately(self, other_playlist) ==
  AddAll(Ok(DefaultPlaylist, RetNone),
         MergeOrder(GetAllSongs(self), GetAllSongs(other_playlist)), 1)

\* ------------------------------------------------ favorite_queue.FavoriteQueue
\* self.heap is kept as the sorted sequence of its entries
\* (-total_listen_time, timestamp, song_id): heappop returns the least entry
\* and heappush adds one, whatever the layout of the underlying list
NewFavoriteQueue ==
  [song_listen_times |-> EmptyDict, heap |-> <<>>, favorites |-> EmptyDict]

\* Python's tuple comparison a < b
TupleLess(a, b) ==
  \/ a[1] < b[1]
  \/ a[1] = b[1] /\ a[2] < b[2]
  \/ a[1] = b[1] /\ a[2] = b[2] /\ a[3] < b[3]

InsertAt(heap, entry, k) ==
  SubSeq(heap, 1, k) \o <<entry>> \o SubSeq(heap, k + 1, Len(heap))

\* a push that leaves the new entry last, whatever its rank
HeapPushUnordered(heap, entry) == InsertAt(heap, entry, Len(heap))

HeapPush(heap, entry) ==
  InsertAt(heap, entry,
           Cardinality({i \in 1..Len(heap) : TupleLess(heap[i], entry)}))

AddToFavorites(q, song_id, title, artist) ==
  IF song_id \in DOMAIN q.favorites THEN q
  ELSE [q EXCEPT !.favorites = Put(@, song_id, <<title, artist>>),
                 !.song_listen_times =
                    IF song_id \in DOMAIN @ THEN @ ELSE Put(@, song_id, 0)]

\* a removal that drops the cumulative listen time as well
RemoveFromFavoritesForgetting(q, song_id) ==
  IF song_id \in DOMAIN q.favorites
  THEN [q EXCEPT !.favorites = Del(@, song_id),
                 !.song_listen_times = Del(@, song_id)]
  ELSE q

RemoveFromFavorites(q, song_id) ==
  IF song_id \in DOMAIN q.favorites
  THEN [q EXCEPT !.favorites = Del(@, song_id)]
  ELSE q

\* record_listen once the new total is known; now is what time.time() returns
PushListen(q, song_id, total, now) ==
  [q EXCEPT !.song_listen_times = Put(@, song_id, total),
            !.heap = HeapPush(@, <<-total, now, song_id>>)]

\* a record_listen that does not ask whether the song is a favorite
RecordListenAnyone(q, song_id, delta_seconds, now) ==
  PushListen(q, song_id,
             IF song_id \in DOMAIN q.song_listen_times
             THEN q.song_listen_times[song_id] + delta_seconds
             ELSE delta_seconds, now)

RecordListen(q, song_id, delta_seconds, now) ==
  IF song_id \notin DOMAIN q.favorites THEN q
  ELSE PushListen(q, song_id,
                  IF song_id \in DOMAIN q.song_listen_times
                  THEN q.song_listen_times[song_id] + delta_seconds
                  ELSE delta_seconds, now)

\* a validity test that does not compare the carried total
IsValidEntryAnyTotal(q, entry) ==
  /\ entry[3] \in DOMAIN q.song_listen_times
  /\ entry[3] \in DOMAIN q.favorites

\* the validity test get_top_n applies to a popped entry
IsValidEntry(q, entry) ==
  /\ entry[3] \in DOMAIN q.song_listen_times
  /\ entry[3] \in DOMAIN q.favorites
  /\ q.song_listen_times[entry[3]] = -entry[1]

SongSummary(q, entry) ==
  [song_id |-> entry[3], title |-> q.favorites[entry[3]][1],
   artist |-> q.favorites[entry[3]][2], total_listen_time |-> -entry[1]]

\* one pass of get_top_n's while loop, entry being the popped one
PopEntry(q, st, entry) ==
  IF IsValidEntry(q, entry)
  THEN [heap |-> Tail(st.heap),
        result |-> Append(st.result, SongSummary(q, entry)),
        temp_entries |-> Append(st.temp_entries, entry)]
  ELSE [st EXCEPT !.heap = Tail(@)]

RECURSIVE TopLoop(_, _, _)
TopLoop(q, st, n) ==
  IF Len(st.result) < n /\ st.heap # <<>>
  THEN TopLoop(q, PopEntry(q, st, Head(st.heap)), n)
  ELSE st

\* a read that does not push the valid entries back
PushBackNothing(heap, entries) == heap

\* for entry in temp_entries: heapq.heappush(self.heap, entry)
RECURSIVE PushBack(_, _)
PushBack(heap, entries) ==
  IF entries = <<>> THEN heap
  ELSE PushBack(HeapPush(heap, Head(entries)), Tail(entries))

TopResult(q, st) ==
  [q |-> [q EXCEPT !.heap = PushBack(st.heap, st.temp_entries)],
   result |-> st.result]

GetTopN(q, n) ==
  TopResult(q, TopLoop(q, [heap |-> q.heap, result |-> <<>>,
                           temp_entries |-> <<>>], n))

FavClear(q) == NewFavoriteQueue

\* ------------------------------------------ playlist_explorer.PlaylistExplorer
\* the tree is the function from the path of each ExplorerNode (the keys from
\* the root down, the root's being the empty path) to the songs set of the node
normalize_text(text) == normalize(text)

NewExplorer == [tree |-> Put(EmptyDict, <<>>, {}), song_to_paths |-> EmptyDict]

\* add_song's path: the normalized genre, then each of subgenre, mood and
\* artist that is not empty
PathOf(genre, subgenre, mood, artist) ==
  <<normalize_text(genre)>>
    \o (IF normalize_text(subgenre) # <<>> THEN <<normalize_text(subgenre)>>
        ELSE <<>>)
    \o (IF normalize_text(mood) # <<>> THEN <<normalize_text(mood)>> ELSE <<>>)
    \o (IF normalize_text(artist) # <<>> THEN <<normalize_text(artist)>>
        ELSE <<>>)

\* the nodes along path exist, the last one holding song_id
StoreAtPath(tree, path, song_id) ==
  [x \in DOMAIN tree \cup {SubSeq(path, 1, k) : k \in 1..Len(path)} |->
     (IF x \in DOMAIN tree THEN tree[x] ELSE {})
       \cup (IF x = path THEN {song_id} ELSE {})]

NotePath(song_to_paths, song_id, path) ==
  Put(song_to_paths, song_id,
      Append(IF song_id \in DOMAIN song_to_paths THEN song_to_paths[song_id]
             ELSE <<>>, path))

ExplorerAddAt(e, song_id, path) ==
  [tree |-> StoreAtPath(e.tree, path, song_id),
   song_to_paths |-> NotePath(e.song_to_paths, song_id, path)]

ExplorerAddSong(e, song_id, genre, subgenre, mood, artist) ==
  ExplorerAddAt(e, song_id, PathOf(genre, subgenre, mood, artist))

\* the path search walks: a criteria dict is a function from its keys to
\* strings; a level is taken only if the levels above it were
SearchPath(criteria) ==
  IF "genre" \notin DOMAIN criteria THEN <<>>
  ELSE IF "subgenre" \notin DOMAIN criteria
  THEN <<normalize_text(criteria["genre"])>>
  ELSE IF "mood" \notin DOMAIN criteria
  THEN <<normalize_text(criteria["genre"]),
         normalize_text(criteria["subgenre"])>>
  ELSE IF "artist" \notin DOMAIN criteria
  THEN <<normalize_text(criteria["genre"]),
         normalize_text(criteria["subgenre"]), normalize_text(criteria["mood"])>>
  ELSE <<normalize_text(criteria["genre"]),
         normalize_text(criteria["subgenre"]), normalize_text(criteria["mood"]),
         normalize_text(criteria["artist"])>>

IsPrefix(path, x) == Len(path) <= Len(x) /\ SubSeq(x, 1, Len(path)) = path

\* the songs of the node at path and of the nodes below it
SongsUnder(tree, path) ==
  IF path \notin DOMAIN tree THEN {}
  ELSE UNION {tree[x] : x \in {y \in DOMAIN tree : IsPrefix(path, y)}}

ExplorerSearch(e, criteria) ==
  IF DOMAIN criteria = {} THEN {} ELSE SongsUnder(e.tree, SearchPath(criteria))

\* ------------------------------------- skipped_tracker.RecentlySkippedTracker
\* maxlen is the maxlen of the deque object _deque is bound to
NewTracker(capacity) ==
  [capacity |-> capacity, maxlen |-> capacity, deque |-> <<>>, set |-> {}]

\* an append that evicts nothing
DequeAppendUnbounded(d, x, maxlen) == Append(d, x)

\* deque(maxlen=maxlen).append(x)
DequeAppend(d, x, maxlen) ==
  IF maxlen = 0 THEN d
  ELSE IF Len(d) = maxlen THEN Append(Tail(d), x)
  ELSE Append(d, x)

TrackerSkipSong(t, song_id) ==
  [t EXCEPT !.set = (IF Len(t.deque) = t.capacity /\ t.deque # <<>>
                     THEN @ \ {Head(t.deque)} ELSE @) \cup {song_id},
            !.deque = DequeAppend(@, song_id, t.maxlen)]

IsRecentlySkipped(t, song_id) == song_id \in t.set

GetRecentlySkipped(t) == t.deque

\* k times: removed_item = self._deque.popleft(); self._set.discard(removed_item)
PopLeft(t, k) ==
  [t EXCEPT !.deque = SubSeq(@, k + 1, Len(@)),
            !.set = @ \ {t.deque[i] : i \in 1..k}]

\* set_capacity up to the assignment of self.capacity
Evicted(t, cap) ==
  IF cap < t.capacity /\ Len(t.deque) > cap
  THEN PopLeft(t, Min(Len(t.deque) - cap, Len(t.deque)))
  ELSE t

\* self._set = set(self._deque)
SetRebuilt(t) == [t EXCEPT !.set = {t.deque[i] : i \in 1..Len(t.deque)}]

\* self.capacity = cap; self._deque = deque(self._deque, maxlen=cap), which
\* raises ValueError for a negative maxlen; then the set is rebuilt
Rebuilt(t, cap) ==
  IF cap < 0 THEN [t |-> [t EXCEPT !.capacity = cap], exc |-> "ValueError"]
  ELSE [t |-> SetRebuilt([t EXCEPT !.capacity = cap, !.maxlen = cap,
                                   !.deque = KeepNewest(@, cap)]),
        exc |-> "none"]

TrackerSetCapacity(t, cap) == Rebuilt(Evicted(t, cap), cap)

\* ------------------------------------------------ recommender.SmartRecommender
DefaultSeedCount == 5
DefaultTopN == 10
DurationThreshold == 120
BpmThreshold == 10
MaxCandidatesPerSeed == 200

\* scores are counted in units of 1 / ScoreUnit, which makes the weights and
\* the two proximity terms whole numbers
ScoreUnit == 10 * DurationThreshold * BpmThreshold

\* metadata dicts are records; a key that is missing reads as '' or 0, as
\* meta.get(key, '') and meta.get(key, 0) read it
Metadata(genre, subgenre, mood, artist, duration, bpm) ==
  [genre |-> genre, subgenre |-> subgenre, mood |-> mood, artist |-> artist,
   duration |-> duration, bpm |-> bpm]

NewRecommender(window_size) ==
  [window_size |-> window_size, play_window |-> <<>>, played_set |-> {},
   song_metadata |-> EmptyDict, total_listen_time |-> EmptyDict]

\* metadata is None (or empty) when has_metadata is false
RecordPlay(r, song_id, played_at, play_duration, has_metadata, metadata) ==
  [r EXCEPT
     !.play_window = DequeAppend(@, <<song_id, played_at>>, r.window_size),
     !.played_set = @ \cup {song_id},
     !.total_listen_time =
        Put(@, song_id,
            (IF song_id \in DOMAIN @ THEN @[song_id] ELSE 0) + play_duration),
     !.song_metadata = IF has_metadata THEN Put(@, song_id, metadata) ELSE @]

\* the criteria _get_similar_songs builds from the seed's metadata
Criteria(seed_meta) ==
  [k \in {"genre"}
       \cup (IF seed_meta.subgenre # <<>> THEN {"subgenre"} ELSE {})
       \cup (IF seed_meta.mood # <<>> THEN {"mood"} ELSE {}) |-> seed_meta[k]]

GetSimilarSongs(r, e, seed_song_id) ==
  IF seed_song_id \notin DOMAIN r.song_metadata THEN {}
  ELSE IF r.song_metadata[seed_song_id].genre = <<>> THEN {}
  ELSE ExplorerSearch(e, Criteria(r.song_metadata[seed_song_id]))
         \ {seed_song_id}

\* weight (in tenths) if both fields are set and equal up to case
MatchScore(a, b, tenths) ==
  IF a # <<>> /\ b # <<>> /\ LowerStr(a) = LowerStr(b)
  THEN tenths * (ScoreUnit \div 10) ELSE 0

Abs(x) == IF x < 0 THEN -x ELSE x

\* weight * max(0, 1 - diff / threshold) if both values are positive and
\* diff <= threshold
ProximityScore(a, b, threshold, tenths) ==
  IF a > 0 /\ b > 0 /\ Abs(b - a) <= threshold
  THEN tenths * (ScoreUnit \div (10 * threshold)) * (threshold - Abs(b - a))
  ELSE 0

MetaScore(seed_meta, candidate_meta) ==
  MatchScore(seed_meta.genre, candidate_meta.genre, 10)
    + MatchScore(seed_meta.subgenre, candidate_meta.subgenre, 8)
    + MatchScore(seed_meta.mood, candidate_meta.mood, 6)
    + ProximityScore(seed_meta.duration, candidate_meta.duration,
                     DurationThreshold, 5)
    + ProximityScore(seed_meta.bpm, candidate_meta.bpm, BpmThreshold, 4)

CalculateSimilarityScore(r, seed_id, candidate_id) ==
  IF seed_id \notin DOMAIN r.song_metadata
       \/ candidate_id \notin DOMAIN r.song_metadata
  THEN 0
  ELSE MetaScore(r.song_metadata[seed_id], r.song_metadata[candidate_id])

Range(seq) == {seq[k] : k \in 1..Len(seq)}

\* the seeds: the window scanned from its newest entry, i being the next
RECURSIVE SeedLoop(_, _, _, _)
SeedLoop(play_window, i, seed_songs, seed_count) ==
  IF i = 0 \/ Len(seed_songs) >= seed_count THEN seed_songs
  ELSE SeedLoop(play_window, i - 1,
                IF play_window[i][1] \in Range(seed_songs) THEN seed_songs
                ELSE Append(seed_songs, play_window[i][1]), seed_count)

ActivePlaylistSongs(p, exclude_active_playlist) ==
  IF exclude_active_playlist
  THEN {GetAllSongs(p)[k].song_id : k \in 1..Len(GetAllSongs(p))} \ {None}
  ELSE {}

\* a filter that lets played songs through
PassesFiltersPlayed(r, t, active_playlist_songs, candidate_id) ==
  /\ ~IsRecentlySkipped(t, candidate_id)
  /\ candidate_id \notin active_playlist_songs

\* none of the three continue statements is taken for the candidate
PassesFilters(r, t, active_playlist_songs, candidate_id) ==
  /\ candidate_id \notin r.played_set
  /\ ~IsRecentlySkipped(t, candidate_id)
  /\ candidate_id \notin active_playlist_songs

\* candidate_scores[candidate_id] += score, a dict keeping insertion order
AddScore(st, candidate_id, score) ==
  IF score > 0
  THEN [scores |-> Put(st.scores, candidate_id,
                       (IF candidate_id \in DOMAIN st.scores
                        THEN st.scores[candidate_id] ELSE 0) + score),
        order |-> IF candidate_id \in DOMAIN st.scores THEN st.order
                  ELSE Append(st.order, candidate_id)]
  ELSE st

ScoreCandidate(r, t, active, st, seed_id, candidate_id) ==
  IF PassesFilters(r, t, active, candidate_id)
  THEN AddScore(st, candidate_id,
                CalculateSimilarityScore(r, seed_id, candidate_id))
  ELSE st

\* the inner loop over similar_songs_list, k being the next index
RECURSIVE CandidateLoop(_, _, _, _, _, _, _)
CandidateLoop(r, t, active, st, seed_id, similar_songs_list, k) ==
  IF k > Len(similar_songs_list) THEN st
  ELSE CandidateLoop(r, t, active,
                     ScoreCandidate(r, t, active, st, seed_id,
                                    similar_songs_list[k]),
                     seed_id, similar_songs_list, k + 1)

\* list(similar_songs)[:max_candidates_per_seed]; a set is listed in the
\* order ord, which the interpreter chooses
SimilarSongsList(similar_songs, ord) ==
  SubSeq(SelectSeq(ord, LAMBDA c : c \in similar_songs), 1,
         Min(MaxCandidatesPerSeed,
             Len(SelectSeq(ord, LAMBDA c : c \in similar_songs))))

\* the outer loop over seed_songs, i being the next index
RECURSIVE SeedScoreLoop(_, _, _, _, _, _, _, _)
SeedScoreLoop(r, t, e, active, st, seed_songs, i, ord) ==
  IF i > Len(seed_songs) THEN st
  ELSE SeedScoreLoop(r, t, e, active,
                     CandidateLoop(r, t, active, st, seed_songs[i],
                                   SimilarSongsList(
                                     GetSimilarSongs(r, e, seed_songs[i]), ord),
                                   1),
                     seed_songs, i + 1, ord)

\* sorted(..., key=score, reverse=True): a stable sort, the candidates being
\* taken in insertion order
RECURSIVE SortLoop(_, _, _, _)
SortLoop(order, scores, k, sorted_candidates) ==
  IF k > Len(order) THEN sorted_candidates
  ELSE SortLoop(order, scores, k + 1,
                InsertAt(sorted_candidates, order[k],
                         Cardinality({j \in 1..Len(sorted_candidates) :
                                        scores[sorted_candidates[j]]
                                          >= scores[order[k]]})))

\* round(score, 2), in hundredths
Round2(units) ==
  IF 2 * ((100 * units) % ScoreUnit) > ScoreUnit
       \/ (2 * ((100 * units) % ScoreUnit) = ScoreUnit
             /\ ((100 * units) \div ScoreUnit) % 2 = 1)
  THEN (100 * units) \div ScoreUnit + 1
  ELSE (100 * units) \div ScoreUnit

\* the Recommendation objects, the reason left out; score is in hundredths
Recommendations(sorted_candidates, scores, top_n) ==
  [k \in 1..Min(top_n, Len(sorted_candidates)) |->
     [song_id |-> sorted_candidates[k],
      score |-> Round2(scores[sorted_candidates[k]])]]

Ranked(st, top_n) ==
  Recommendations(SortLoop(st.order, st.scores, 1, <<>>), st.scores, top_n)

RecommendFrom(r, t, e, p, seed_songs, top_n, exclude_active_playlist, ord) ==
  IF seed_songs = <<>> THEN <<>>
  ELSE Ranked(SeedScoreLoop(r, t, e,
                            ActivePlaylistSongs(p, exclude_active_playlist),
                            [scores |-> EmptyDict, order |-> <<>>],
                            seed_songs, 1, ord), top_n)

\* seed_count and top_n are None when 0: 'seed_count or self.seed_count'
SeedSongs(r, seed_count) ==
  SeedLoop(r.play_window, Len(r.play_window), <<>>,
           IF seed_count = 0 THEN DefaultSeedCount ELSE seed_count)

Recommend(r, t, e, p, seed_count, top_n, exclude_active_playlist, ord) ==
  RecommendFrom(r, t, e, p, SeedSongs(r, seed_count),
                IF top_n = 0 THEN DefaultTopN ELSE top_n,
                exclude_active_playlist, ord)

\* the keys of total_listen_time in insertion order, played being the ids
\* record_play was called with
RECURSIVE ListenedOrder(_, _, _)
ListenedOrder(played, k, keys) ==
  IF k > Len(played) THEN keys
  ELSE ListenedOrder(played, k + 1,
                     IF played[k] \in Range(keys) THEN keys
                     ELSE Append(keys, played[k]))

\* the filters of get_popular_songs
Excluded(r, t, song_id, exclude_recent, exclude_skipped) ==
  \/ exclude_recent /\ song_id \in r.played_set
  \/ exclude_skipped /\ IsRecentlySkipped(t, song_id)

\* Recommendation(song_id, score=float(total_time)), the reason left out;
\* score is in hundredths
Popular(r, song_id) ==
  [song_id |-> song_id, score |-> 100 * r.total_listen_time[song_id]]

\* for song_id, total_time in sorted_songs, from the k-th on; the loop is left
\* once an append has made the list top_n long
RECURSIVE PopularLoop(_, _, _, _, _, _, _, _)
PopularLoop(r, t, sorted_songs, k, exclude_recent, exclude_skipped, top_n, recommendations) ==
  IF k > Len(sorted_songs)
       \/ (recommendations # <<>> /\ Len(recommendations) >= top_n)
  THEN recommendations
  ELSE PopularLoop(r, t, sorted_songs, k + 1, exclude_recent, exclude_skipped,
                   top_n,
                   IF Excluded(r, t, sorted_songs[k], exclude_recent,
                               exclude_skipped)
                   THEN recommendations
                   ELSE Append(recommendations, Popular(r, sorted_songs[k])))

\* get_popular_songs; top_n is None when 0 ('top_n or self.top_n'), keys
\* lists total_listen_time in insertion order
GetPopularSongs(r, t, keys, exclude_recent, exclude_skipped, top_n) ==
  PopularLoop(r, t, SortLoop(keys, r.total_listen_time, 1, <<>>), 1,
              exclude_recent, exclude_skipped,
              IF top_n = 0 THEN DefaultTopN ELSE top_n, <<>>)

\* ------------------------------------ playback_controller.PlaybackController
DefaultCapacity == 10

\* AutoReplayManager.CALM_GENRES
CalmGenres ==
  { <<"l", "o", "-", "f", "i">>, <<"l", "o", "f", "i">>, <<"j", "a", "z", "z">>,
    <<"c", "h", "i", "l", "l">>, <<"a", "m", "b", "i", "e", "n", "t">> }

\* s.genre and AutoReplayManager.is_calm(s.genre); a genre of None is the
\* empty string here, the code testing nothing of a genre but its truth
IsCalm(genre) == genre # <<>> /\ LowerStr(genre) \in CalmGenres

\* history is the stack, top first; play_count[obj] is the play_count
\* attribute of the obj-th Song object the controller made
NewController ==
  [playlist |-> DefaultPlaylist, history |-> <<>>,
   skipped_tracker |-> NewTracker(DefaultCapacity),
   favorite_queue |-> NewFavoriteQueue, auto_replayed |-> FALSE,
   play_count |-> <<>>]

\* the obj-th Song object made: the attributes that never change, and which
\* object it is
PlayedSong(title, artist, duration, genre, song_id, obj) ==
  [title |-> title, artist |-> artist, duration |-> duration,
   song_id |-> song_id, genre |-> genre, obj |-> obj]

\* how a call on the controller ended
CtlOk(c, ret) == [c |-> c, ret |-> ret, exc |-> "none"]
CtlRaise(c, e) == [c |-> c, ret |-> RetNone, exc |-> e]
Returning(r, ret) == IF r.exc # "none" THEN r ELSE CtlOk(r.c, ret)

\* song.increment_play_count(); self.history.record_played_song(song);
\* if song.song_id: self.favorite_queue.record_listen(song.song_id, duration)
RecordPlayed(c, song, t) ==
  [c EXCEPT !.play_count[song.obj] = @ + 1,
            !.history = <<song>> \o @,
            !.favorite_queue = IF song.song_id # None
                               THEN RecordListen(@, song.song_id, song.duration, t)
                               ELSE @]

\* play_song once add_existing_song has ended as r
PlaySongAdded(c, song, r, t) ==
  IF r.exc # "none" THEN CtlRaise(c, r.exc)
  ELSE CtlOk(RecordPlayed([c EXCEPT !.playlist = r.pl], song, t),
             RetList(<<song>>))

PlaySongMade(c, song, t) ==
  PlaySongAdded(c, song, AddExistingSong(c.playlist, song), t)

PlaySong(c, title, artist, duration, genre, song_id, t) ==
  PlaySongMade([c EXCEPT !.play_count = Append(@, 0)],
               PlayedSong(title, artist, duration, genre, song_id,
                          Len(c.play_count) + 1), t)

\* [s for s in songs if s.genre and AutoReplayManager.is_calm(s.genre)]
Calming(songs) == SelectSeq(songs, LAMBDA s : IsCalm(s.genre))

\* the indices of calming, by play_count, largest first, ties in list order
CalmOrder(calming, play_count) ==
  SortLoop([i \in 1..Len(calming) |-> i],
           [i \in 1..Len(calming) |-> play_count[calming[i].obj]], 1, <<>>)

TopOf(calming, order, k) ==
  [i \in 1..Min(k, Len(order)) |-> calming[order[i]]]

\* AutoReplayManager.top_k_calm_songs: heapq.nlargest(k, calming, key=play_count)
TopKCalmSongs(songs, play_count, k) ==
  TopOf(Calming(songs), CalmOrder(Calming(songs), play_count), k)

\* for s in top3, from the i-th on; r is how the last add_existing_song ended
RECURSIVE ReplayLoop(_, _, _, _)
ReplayLoop(r, t, top3, i) ==
  IF r.exc # "none" \/ i > Len(top3) THEN r
  ELSE ReplayLoop(IF top3[i].song_id # None
                       /\ ~IsRecentlySkipped(t, top3[i].song_id)
                  THEN AddExistingSong(r.pl, top3[i]) ELSE r,
                  t, top3, i + 1)

Replayed(c, r) ==
  [c |-> [c EXCEPT !.playlist = r.pl, !.auto_replayed = TRUE],
   ret |-> RetNone, exc |-> r.exc]

\* an auto replay that does not ask whether it has fired before
TriggerAutoReplayAgain(c) ==
  Replayed(c, ReplayLoop(Ok(c.playlist, RetNone), c.skipped_tracker,
                         TopKCalmSongs(c.history, c.play_count, 3), 1))

TriggerAutoReplay(c) ==
  IF c.auto_replayed THEN CtlOk(c, RetNone)
  ELSE Replayed(c, ReplayLoop(Ok(c.playlist, RetNone), c.skipped_tracker,
                              TopKCalmSongs(c.history, c.play_count, 3), 1))

\* a play_next whose auto replay fires whenever the playlist is empty
AfterPlayReplaying(c) ==
  IF IsEmpty(c.playlist) THEN TriggerAutoReplayAgain(c) ELSE CtlOk(c, RetNone)

\* if self.playlist.is_empty(): self._trigger_auto_replay()
AfterPlay(c) ==
  IF IsEmpty(c.playlist) THEN TriggerAutoReplay(c) ELSE CtlOk(c, RetNone)

\* a play_next that plays whatever pop_next returned
PlayPoppedAnyway(c, next_song, force_play_skipped, t) ==
  Returning(AfterPlay(RecordPlayed(c, next_song, t)), RetList(<<next_song>>))

\* play_next once pop_next has returned next_song
PlayPopped(c, next_song, force_play_skipped, t) ==
  IF ~force_play_skipped /\ next_song.song_id # None
       /\ IsRecentlySkipped(c.skipped_tracker, next_song.song_id)
  THEN CtlOk(c, RetNone)
  ELSE Returning(AfterPlay(RecordPlayed(c, next_song, t)),
                 RetList(<<next_song>>))

\* play_next once pop_next has ended as r
PlayNextPopped(c, r, force_play_skipped, t) ==
  IF r.exc # "none" THEN CtlRaise(c, r.exc)
  ELSE PlayPopped([c EXCEPT !.playlist = r.pl], r.ret.list[1],
                  force_play_skipped, t)

PlayNext(c, force_play_skipped, t) ==
  IF IsEmpty(c.playlist) THEN CtlOk(c, RetNone)
  ELSE PlayNextPopped(c, PopNext(c.playlist), force_play_skipped, t)

\* PlaybackHistory.undo_last_play once add_existing_song has ended as r
UndoAdded(c, r) ==
  [c |-> [c EXCEPT !.playlist = r.pl, !.history = Tail(@)],
   ret |-> RetTrue, exc |-> r.exc]

\* undo_last_play(), the target being the controller's own playlist
UndoLastPlay(c) ==
  IF c.history = <<>> THEN CtlOk(c, RetFalse)
  ELSE UndoAdded(c, AddExistingSong(c.playlist, Head(c.history)))

\* controller.playlist.delete_song(index)
EditDeleted(c, r) ==
  [c |-> [c EXCEPT !.playlist = r.pl], ret |-> r.ret, exc |-> r.exc]

ControllerDeleteSong(c, index) ==
  EditDeleted(c, PlaylistDeleteSong(c.playlist, index))

\* the Song object undo_delete makes of the song deleted
Recreated(e) ==
  Song(e.song.title, e.song.artist, e.song.duration, e.song.song_id)

\* restored_song = Song(song.title, song.artist, song.duration,
\*                      song_id=song_id, genre=getattr(song, 'genre', None)):
\* a Song object of its own, the obj-th the controller's calls made
Restored(s, e, obj) ==
  IF s = Recreated(e)
  THEN PlayedSong(e.song.title, e.song.artist, e.song.duration, e.song.genre,
                  e.song.song_id, obj)
  ELSE s

\* the playlist, the song undo_delete made being the obj-th Song object
WithRestored(p, e, obj) ==
  [p EXCEPT
     !.nodes = [n \in DOMAIN p.nodes |->
                  [p.nodes[n] EXCEPT !.song = Restored(@, e, obj)]],
     !.id_map = [k \in DOMAIN p.id_map |-> Restored(p.id_map[k], e, obj)],
     !.title_map = [k \in DOMAIN p.title_map |->
                      Restored(p.title_map[k], e, obj)]]

\* undo_last_n_actions(1) has ended as r, undoing the deletion logged as e
EditUndone(c, r, e) ==
  [c |-> [c EXCEPT !.playlist = WithRestored(r.pl, e, Len(c.play_count) + 1),
                   !.play_count = Append(@, 0)],
   ret |-> r.ret, exc |-> r.exc]

\* controller.playlist.undo_last_n_actions(1): the controller's calls log
\* nothing, so the log holds deletions only
ControllerUndoEdit(c) ==
  IF c.playlist.log = <<>> THEN CtlOk(c, RetList(<<>>))
  ELSE EditUndone(c, UndoLastNActions(c.playlist, 1),
                  c.playlist.log[Len(c.playlist.log)])

ControllerSkipSong(c, song_id) ==
  [c EXCEPT !.skipped_tracker = TrackerSkipSong(@, song_id)]

ControllerAddToFavorites(c, song_id, title, artist) ==
  [c EXCEPT !.favorite_queue = AddToFavorites(@, song_id, title, artist)]

\* ------------------------------------------------------------------ inputs
TitleA == <<"a">>
TitleA2 == <<" ", "A">>
TitleB == <<"b">>
ArtistX == <<"x">>
ArtistX2 == <<"X", " ">>
ArtistY == <<"y">>

\* (title, artist, duration, song_id) handed to add_song: two songs with ids
\* that share a title, and an id-less song whose key normalizes to the first's
SongInputs ==
  { <<TitleA, ArtistX, 3, 1>>, <<TitleA, ArtistY, 4, 2>>,
    <<TitleA2, ArtistX2, 5, None>> }

InputSong(s) == Song(s[1], s[2], s[3], s[4])

BlockInputs == {ArtistX2}
UnblockInputs == {ArtistX}
Policies == {"first"}

\* favorites: song ids and the (title, artist) they are added with
FavoriteIds == {1, 2}
FavoriteTitle(song_id) == IF song_id = 1 THEN TitleA ELSE TitleB
FavoriteArtist(song_id) == IF song_id = 1 THEN ArtistX ELSE ArtistY

\* the recommender's song ids, and the catalogue: the metadata each song is
\* classified, played and described with
RecIds == {1, 2, 3}

MetaOf(song_id) ==
  CASE song_id = 1 -> Metadata(<<"A">>, <<"b">>, <<"x">>, <<"x">>, 200, 120)
    [] song_id = 2 -> Metadata(<<"a">>, <<"b">>, <<"x">>, <<"y">>, 260, 0)
    [] OTHER -> Metadata(<<"a">>, <<>>, <<"y">>, <<"y">>, 200, 125)

\* (song_id, whether metadata is passed) handed to record_play, and the ids
\* handed to skip_song
PlayInputs == {<<1, TRUE>>, <<2, FALSE>>, <<3, TRUE>>}
SkipInputs == {1, 2}

\* orders a set of song ids is listed in: a seed has at most two candidates,
\* and these two orders list any two ids either way round
ListingOrders == {<<1, 2, 3>>, <<3, 2, 1>>}

\* the values a criteria dict handed to search gives a field that is not None
FieldInputs(field) ==
  CASE field = "genre" -> {<<"A">>, <<"r">>}
    [] field = "subgenre" -> {<<"b">>, <<"y">>}
    [] field = "mood" -> {<<"x">>, <<"y">>}
    [] OTHER -> {<<"x">>, <<"Y">>}

\* the criteria dicts handed to search, a field that is None being left out
SearchInputs ==
  UNION {{c \in [fields -> {<<"A">>, <<"r">>, <<"b">>, <<"x">>, <<"y">>, <<"Y">>}] :
            \A field \in fields : c[field] \in FieldInputs(field)} :
         fields \in SUBSET {"genre", "subgenre", "mood", "artist"}}

\* the lists handed to a ConstrainedShuffler: songs told apart by their ids,
\* by artists of which two differ in case only
ShufflerArtists == { <<"x">>, <<"X">>, <<"y">>, <<"z">> }

ArtistLists(n) == UNION {[1..k -> ShufflerArtists] : k \in 0..n}

SongList(artists) ==
  [i \in 1..Len(artists) |-> Song(TitleA, artists[i], 3, i)]

\* the orders the random.shuffle calls of one shuffle_with_constraints draw
Draws(n, max_attempts) ==
  [1..(IF max_attempts > 1 THEN max_attempts ELSE 1) -> Perms(n)]

\* (title, artist, duration, genre, song_id) handed to play_song: a calm song,
\* another song, and an id-less song with the first one's title and artist
JazzGenre == <<"J", "a", "z", "z">>

LofiGenre == <<"l", "o", "f", "i">>

\* (title, artist, duration, genre, song_id) handed to play_song: two calm
\* songs, a song without a genre, and an id-less song with the first's key
ControllerSongs ==
  { <<TitleA, ArtistX, 3, JazzGenre, 1>>, <<TitleB, ArtistY, 4, <<>>, 2>>,
    <<TitleB, ArtistX, 4, LofiGenre, 3>>, <<TitleA, ArtistX, 3, <<>>, None>> }

\* the song sequence as (title, artist, duration, id)
Songs(p) ==
  [i \in 1..Len(GetAllSongs(p)) |->
     <<GetAllSongs(p)[i].title, GetAllSongs(p)[i].artist,
       GetAllSongs(p)[i].duration, GetAllSongs(p)[i].song_id>>]

\* ----------------------------------------------------------- state machine
VARIABLES
  pl,      \* the Playlist under test (list, lookup map, blocklist, logger)
  other,   \* a second Playlist, the argument of merge_alternately
  merged,  \* what the last merge_alternately returned
  fq,      \* the FavoriteQueue
  now,     \* the last value time.time() returned
  op,      \* the last call: name, arguments, return value, exception
  hist,    \* what the calls so far were, as far as the properties need it
  nops,    \* number of calls made
  fav,     \* what the favorites calls so far were, as far as the properties need it
  ref,     \* a second FavoriteQueue, given the same calls bar some reads
  rec,     \* the SmartRecommender, whose playlist_songs_getter is pl.get_all_songs
  tracker,   \* its RecentlySkippedTracker
  explorer,  \* its PlaylistExplorer
  plays,   \* the song ids passed to record_play so far, oldest first
  sh,      \* the last call on a ConstrainedShuffler: its arguments and outcome
  ctl      \* the PlaybackController

vars ==
  <<pl, other, merged, fq, now, op, hist, nops, fav, ref, rec, tracker,
    explorer, plays, sh, ctl>>

ctlvars == <<sh, ctl>>

favvars == <<fq, now, fav, ref>>

recvars == <<rec, tracker, explorer, plays>>

Call(name, i, j, song, ret, exc) ==
  [name |-> name, i |-> i, j |-> j, song |-> song, ret |-> ret, exc |-> exc]

NoPlaylist == [NewPlaylist("first") EXCEPT !.keep = "none"]

\* adds: k when the calls so far were k successful add_song calls, else -1;
\* before: the song sequence a successful delete_song found, for the next call
NoHist == [adds |-> -1, before |-> <<>>]

\* listened: per id, the sum of the deltas of the record_listen calls made
\* while it was a favorite since the last clear; last: the number of the
\* latest such call (0: none); reads: how many get_top_n calls with the same
\* n were just made in a row
NoListens ==
  [listened |-> [id \in FavoriteIds |-> 0], last |-> [id \in FavoriteIds |-> 0],
   reads |-> 0]

\* input: the list handed over, as it was before the call; songs: the same
\* list object after the call; possible: what _is_arrangement_possible returned
NoShuffle ==
  [input |-> <<>>, songs |-> <<>>, max_attempts |-> 0, result |-> <<>>,
   path |-> "none", tried |-> <<>>, possible |-> TRUE]

Init ==
  /\ pl \in {NewPlaylist(k) : k \in Policies}
  /\ other = NewPlaylist("first")
  /\ merged = NoPlaylist
  /\ fq = NewFavoriteQueue
  /\ now = 0
  /\ op = Call("init", 0, 0, NoSong, RetNone, "none")
  /\ hist = [adds |-> 0, before |-> <<>>]
  /\ nops = 0
  /\ fav = NoListens
  /\ ref = [q |-> NewFavoriteQueue, ret |-> RetNone, extra |-> FALSE]
  /\ rec = NewRecommender(MaxWindow)
  /\ tracker = NewTracker(MaxSkipped)
  /\ explorer = NewExplorer
  /\ plays = <<>>
  /\ sh = NoShuffle
  /\ ctl = NewController

\* a call on pl ended as r
Finish(name, i, j, song, r, h) ==
  /\ nops < MaxOps
  /\ r.exc # "OutOfNodes"
  /\ pl' = Renumber(r.pl)
  /\ op' = Call(name, i, j, song, r.ret, r.exc)
  /\ hist' = h
  /\ nops' = nops + 1
  /\ merged' = NoPlaylist
  /\ UNCHANGED <<other, favvars, recvars, ctlvars>>

AddedHist(r) ==
  IF hist.adds >= 0 /\ r.exc = "none" /\ r.ret = RetNone
  THEN [adds |-> hist.adds + 1, before |-> <<>>]
  ELSE NoHist

AddSongResult(s, r) ==
  Finish("add_song", 0, 0, InputSong(s), r, AddedHist(r))

AddSong(s) ==
  /\ pl.size < MaxSize
  /\ AddSongResult(s, PlaylistAddSong(pl, s[1], s[2], s[3], s[4]))

AddExisting(s) ==
  /\ pl.size < MaxSize
  /\ Finish("add_existing_song", 0, 0, InputSong(s),
            AddExistingSong(pl, InputSong(s)), NoHist)

DeletedHist(r) ==
  IF r.exc = "none" THEN [adds |-> -1, before |-> Songs(pl)] ELSE NoHist

DeleteSongResult(i, r) == Finish("delete_song", i, 0, NoSong, r, DeletedHist(r))

DeleteSong(i) == DeleteSongResult(i, PlaylistDeleteSong(pl, i))

\* before: the song sequence a successful move_song, reverse_playlist or
\* shuffle_with_artist_constraints found
ReorderedHist(r) ==
  IF r.exc = "none" THEN [adds |-> -1, before |-> Songs(pl)] ELSE NoHist

MoveSongResult(f, t, r) == Finish("move_song", f, t, NoSong, r, ReorderedHist(r))

MoveSong(f, t) == MoveSongResult(f, t, PlaylistMoveSong(pl, f, t))

ReverseResult(r) ==
  Finish("reverse_playlist", 0, 0, NoSong, r, ReorderedHist(r))

ReversePlaylist == ReverseResult(PlaylistReversePlaylist(pl))

PopNextSong == Finish("pop_next", 0, 0, NoSong, PopNext(pl), NoHist)

UndoLastN(n) ==
  Finish("undo_last_n_actions", n, 0, NoSong, UndoLastNActions(pl, n), NoHist)

ShuffleResult(r) ==
  Finish("shuffle_with_artist_constraints", 0, 0, NoSong, r, ReorderedHist(r))

ShuffleTo(songs, shuffled) ==
  /\ CanShuffleTo(songs, shuffled)
  /\ ShuffleResult(ShuffleWithArtistConstraints(pl, shuffled))

Shuffle ==
  \E f \in Perms(Len(GetAllSongs(pl))) :
    ShuffleTo(GetAllSongs(pl), Permuted(GetAllSongs(pl), f))

BlockArtist(a) ==
  Finish("add_artist", 0, 0, NoSong, Ok(BlocklistAddArtist(pl, a), RetNone),
         NoHist)

UnblockArtist(a) ==
  Finish("remove_artist", 0, 0, NoSong,
         Ok(BlocklistRemoveArtist(pl, a), RetNone), NoHist)

\* a call on the second playlist ended as r
OtherFinish(r) ==
  /\ nops < MaxOps
  /\ r.exc # "OutOfNodes"
  /\ other' = Renumber(r.pl)
  /\ op' = Call("other.add_song", 0, 0, NoSong, r.ret, r.exc)
  /\ hist' = NoHist
  /\ nops' = nops + 1
  /\ merged' = NoPlaylist
  /\ UNCHANGED <<pl, favvars, recvars, ctlvars>>

OtherAddSong(s) ==
  /\ other.size < MaxOther
  /\ OtherFinish(PlaylistAddSong(other, s[1], s[2], s[3], s[4]))

MergeResult(r) ==
  /\ nops < MaxOps
  /\ r.exc # "OutOfNodes"
  /\ merged' = Renumber(r.pl)
  /\ op' = Call("merge_alternately", 0, 0, NoSong, RetNone, r.exc)
  /\ hist' = NoHist
  /\ nops' = nops + 1
  /\ UNCHANGED <<pl, other, favvars, recvars, ctlvars>>

Merge == MergeResult(MergeAlternately(pl, other))

IndexInputs == -1..pl.size

Next ==
  \/ \E s \in SongInputs : AddSong(s)
  \/ \E s \in SongInputs : AddExisting(s)
  \/ \E i \in IndexInputs : DeleteSong(i)
  \/ \E f, t \in IndexInputs : MoveSong(f, t)
  \/ ReversePlaylist
  \/ PopNextSong
  \/ \E n \in 0..MaxUndoN : UndoLastN(n)

\* the editing operations of a playlist
Spec == Init /\ [][Next]_vars

\* the songs that carry an id
IdSongInputs == {s \in SongInputs : s[4] # None}

NextIds ==
  \/ \E s \in IdSongInputs : AddSong(s)
  \/ \E i \in IndexInputs : DeleteSong(i)
  \/ \E f, t \in IndexInputs : MoveSong(f, t)
  \/ ReversePlaylist
  \/ \E n \in 0..MaxUndoN : UndoLastN(n)

\* a playlist every song of which carries an id
SpecIds == Init /\ [][NextIds]_vars

NextShuffle ==
  \/ \E s \in SongInputs : AddSong(s)
  \/ \E i \in IndexInputs : DeleteSong(i)
  \/ \E n \in 1..MaxUndoN : UndoLastN(n)
  \/ \E a \in BlockInputs : BlockArtist(a)
  \/ \E a \in UnblockInputs : UnblockArtist(a)
  \/ Shuffle

\* admission (blocklist, dedupe) and the constrained shuffle
SpecShuffle == Init /\ [][NextShuffle]_vars

NextMerge ==
  \/ \E s \in SongInputs : AddSong(s)
  \/ \E i \in IndexInputs : DeleteSong(i)
  \/ \E n \in 1..MaxUndoN : UndoLastN(n)
  \/ \E s \in SongInputs : OtherAddSong(s)
  \/ Merge

\* two playlists and their alternating merge
SpecMerge == Init /\ [][NextMerge]_vars

\* what the call name(i, j) adds to the record of the favorites calls
FavHist(name, i, j) ==
  IF name = "clear" THEN NoListens
  ELSE IF name = "record_listen" /\ i \in DOMAIN fq.favorites
  THEN [listened |-> [fav.listened EXCEPT ![i] = @ + j],
        last |-> [fav.last EXCEPT ![i] = nops + 1], reads |-> 0]
  ELSE IF name = "get_top_n"
  THEN [fav EXCEPT !.reads = IF op.name = "get_top_n" /\ op.i = i
                             THEN @ + 1 ELSE 1]
  ELSE [fav EXCEPT !.reads = 0]

\* a call on the favorites queue left it as q and returned ret
FavStep(name, i, j, q, ret, t) ==
  /\ fq' = q
  /\ now' = t
  /\ op' = Call(name, i, j, NoSong, ret, "none")
  /\ nops' = nops + 1
  /\ fav' = FavHist(name, i, j)
  /\ UNCHANGED <<pl, other, merged, hist, recvars, ctlvars>>

FavFinish(name, i, j, q, ret, t) ==
  /\ nops < MaxFavOps
  /\ FavStep(name, i, j, q, ret, t)
  /\ UNCHANGED ref

FavAdd(id) ==
  FavFinish("add_to_favorites", id, 0,
            AddToFavorites(fq, id, FavoriteTitle(id), FavoriteArtist(id)),
            RetNone, now)

FavRemove(id) ==
  FavFinish("remove_from_favorites", id, 0, RemoveFromFavorites(fq, id),
            RetNone, now)

\* time.time() does not go back
FavRecordListen(id, delta, t) ==
  FavFinish("record_listen", id, delta, RecordListen(fq, id, delta, t),
            RetNone, t)

FavTopResult(n, r) == FavFinish("get_top_n", n, 0, r.q, RetList(r.result), now)

FavGetTopN(n) == FavTopResult(n, GetTopN(fq, n))

FavClearAll == FavFinish("clear", 0, 0, FavClear(fq), RetNone, now)

NextFav ==
  \/ \E id \in FavoriteIds : FavAdd(id)
  \/ \E id \in FavoriteIds : FavRemove(id)
  \/ \E id \in FavoriteIds, delta \in 0..MaxDelta, t \in {now, now + 1} :
       FavRecordListen(id, delta, t)
  \/ \E n \in -1..MaxTopN : FavGetTopN(n)
  \/ FavClearAll

\* the favorites queue
SpecFav == Init /\ [][NextFav]_vars

\* a call on a favorites queue whose clock ticks once per listen
FavReadFinish(name, i, j, q, ret, t) ==
  /\ nops < MaxReadOps
  /\ FavStep(name, i, j, q, ret, t)
  /\ UNCHANGED ref

FavReadTop(n, r) ==
  FavReadFinish("get_top_n", n, 0, r.q, RetList(r.result), now)

NextFavRead ==
  \/ \E id \in FavoriteIds :
       FavReadFinish("add_to_favorites", id, 0,
                     AddToFavorites(fq, id, FavoriteTitle(id),
                                    FavoriteArtist(id)),
                     RetNone, now)
  \/ \E id \in FavoriteIds :
       FavReadFinish("remove_from_favorites", id, 0,
                     RemoveFromFavorites(fq, id), RetNone, now)
  \/ \E id \in FavoriteIds, delta \in 0..MaxDelta :
       FavReadFinish("record_listen", id, delta,
                     RecordListen(fq, id, delta, now + 1), RetNone, now + 1)
  \/ \E n \in 0..MaxTopN : FavReadTop(n, GetTopN(fq, n))
  \/ FavReadFinish("clear", 0, 0, FavClear(fq), RetNone, now)

\* the favorites queue, one call more, every listen at a time of its own
SpecFavRead == Init /\ [][NextFavRead]_vars

\* the same call on fq and on the second queue ref.q, which ends as r
PairFinish(name, i, j, q, ret, t, r) ==
  /\ nops < MaxPairOps
  /\ FavStep(name, i, j, q, ret, t)
  /\ ref' = [q |-> r.q, ret |-> r.ret, extra |-> FALSE]

PairAdd(id) ==
  PairFinish("add_to_favorites", id, 0,
             AddToFavorites(fq, id, FavoriteTitle(id), FavoriteArtist(id)),
             RetNone, now,
             [q |-> AddToFavorites(ref.q, id, FavoriteTitle(id),
                                   FavoriteArtist(id)), ret |-> RetNone])

PairRemove(id) ==
  PairFinish("remove_from_favorites", id, 0, RemoveFromFavorites(fq, id),
             RetNone, now,
             [q |-> RemoveFromFavorites(ref.q, id), ret |-> RetNone])

PairRecordListen(id, delta, t) ==
  PairFinish("record_listen", id, delta, RecordListen(fq, id, delta, t),
             RetNone, t,
             [q |-> RecordListen(ref.q, id, delta, t), ret |-> RetNone])

PairTopResult(n, r, r0) ==
  PairFinish("get_top_n", n, 0, r.q, RetList(r.result), now,
             [q |-> r0.q, ret |-> RetList(r0.result)])

PairGetTopN(n) == PairTopResult(n, GetTopN(fq, n), GetTopN(ref.q, n))

\* a get_top_n(m) call made on fq only
ExtraResult(m, r) ==
  /\ nops < MaxPairOps
  /\ FavStep("get_top_n", m, 0, r.q, RetList(r.result), now)
  /\ ref' = [ref EXCEPT !.extra = TRUE]

ExtraGetTopN(m) == ExtraResult(m, GetTopN(fq, m))

NextFavPair ==
  \/ \E id \in FavoriteIds : PairAdd(id)
  \/ \E id \in FavoriteIds : PairRemove(id)
  \/ \E id \in FavoriteIds, delta \in 1..MaxDelta, t \in {now, now + 1} :
       PairRecordListen(id, delta, t)
  \/ \E n \in 1..MaxTopN : PairGetTopN(n)
  \/ \E m \in 1..MaxTopN : ExtraGetTopN(m)

\* one sequence of favorites calls run on two queues, one of which is given
\* get_top_n calls the other is not
SpecFavPair == Init /\ [][NextFavPair]_vars

\* a call on the recommender, the tracker or the explorer
RecFinish(name, i, j, r, t, e, ret) ==
  /\ nops < MaxRecOps
  /\ rec' = r
  /\ tracker' = t
  /\ explorer' = e
  /\ op' = Call(name, i, j, NoSong, ret, "none")
  /\ plays' = IF name = "record_play" THEN Append(plays, i) ELSE plays
  /\ nops' = nops + 1
  /\ UNCHANGED <<pl, other, merged, hist, favvars, ctlvars>>

\* explorer.add_song for a song of the catalogue, each song once
ExplorerAdd(id) ==
  /\ id \notin DOMAIN explorer.song_to_paths
  /\ RecFinish("explorer.add_song", id, 0, rec, tracker,
               ExplorerAddSong(explorer, id, MetaOf(id).genre,
                               MetaOf(id).subgenre, MetaOf(id).mood,
                               MetaOf(id).artist), RetNone)

\* for song_id, metadata in song_metadata.items():
\*     recommender.song_metadata[song_id] = metadata
\* the loop by which the demos hand the catalogue to the recommender
LoadMetadata ==
  /\ DOMAIN rec.song_metadata # RecIds
  /\ RecFinish("song_metadata", 0, 0,
               [rec EXCEPT !.song_metadata = [id \in RecIds |-> MetaOf(id)]],
               tracker, explorer, RetNone)

\* the active playlist is given one song
ActiveAddSong(s) ==
  /\ pl.size = 0
  /\ AddSong(s)

\* played_at is the number of the play, play_duration is 1
RecordPlayCall(id, has_metadata) ==
  /\ Len(plays) < MaxPlays
  /\ RecFinish("record_play", id, IF has_metadata THEN 1 ELSE 0,
               RecordPlay(rec, id, Len(plays) + 1, 1, has_metadata, MetaOf(id)),
               tracker, explorer, RetNone)

SkipSong(id) ==
  RecFinish("skip_song", id, 0, rec, TrackerSkipSong(tracker, id), explorer,
            RetNone)

RecommendCall(seed_count, top_n, exclude_active_playlist, ord) ==
  RecFinish(IF exclude_active_playlist THEN "recommend"
            ELSE "recommend(exclude_active_playlist=False)",
            seed_count, top_n, rec, tracker, explorer,
            RetList(Recommend(rec, tracker, explorer, pl, seed_count, top_n,
                              exclude_active_playlist, ord)))

NextRec ==
  \/ \E s \in SongInputs : ActiveAddSong(s)
  \/ \E id \in RecIds : ExplorerAdd(id)
  \/ LoadMetadata
  \/ \E x \in PlayInputs : RecordPlayCall(x[1], x[2])
  \/ \E id \in SkipInputs : SkipSong(id)
  \/ \E seed_count, top_n \in 0..1, exclude_active_playlist \in BOOLEAN,
        ord \in ListingOrders :
       RecommendCall(seed_count, top_n, exclude_active_playlist, ord)

\* i is top_n; j is 2 when exclude_recent is true plus 1 when exclude_skipped is
PopularCall(exclude_recent, exclude_skipped, top_n) ==
  RecFinish("get_popular_songs", top_n,
            (IF exclude_recent THEN 2 ELSE 0)
              + (IF exclude_skipped THEN 1 ELSE 0),
            rec, tracker, explorer,
            RetList(GetPopularSongs(rec, tracker, ListenedOrder(plays, 1, <<>>),
                                    exclude_recent, exclude_skipped, top_n)))

NextPopular ==
  \/ \E x \in PlayInputs : RecordPlayCall(x[1], x[2])
  \/ \E id \in SkipInputs : SkipSong(id)
  \/ \E exclude_recent, exclude_skipped \in BOOLEAN, top_n \in 0..2 :
       PopularCall(exclude_recent, exclude_skipped, top_n)

\* the recommender asked for its popular songs
SpecPopular == Init /\ [][NextPopular]_vars

\* the recommender with its explorer, skipped tracker and active playlist
SpecRec == Init /\ [][NextRec]_vars

\* a set of song ids, listed in ascending order
Ascending(ids) ==
  [k \in 1..Cardinality(ids) |->
     CHOOSE x \in ids : Cardinality({y \in ids : y < x}) = k - 1]

\* explorer.search(criteria); the criteria dict is recorded as the call's
\* first argument, the set returned as the list of its ids
SearchCall(criteria) ==
  RecFinish("search", criteria, 0, rec, tracker, explorer,
            RetList(Ascending(ExplorerSearch(explorer, criteria))))

NextExplorer ==
  \/ \E id \in RecIds : ExplorerAdd(id)
  \/ \E criteria \in SearchInputs : SearchCall(criteria)

\* the playlist explorer
SpecExplorer == Init /\ [][NextExplorer]_vars

\* a call on a ConstrainedShuffler ended as s; a behaviour makes one call
ShufflerFinish(name, s) ==
  /\ sh.path = "none"
  /\ sh' = s
  /\ op' = Call(name, Len(s.input), s.max_attempts, NoSong, RetList(s.result),
               "none")
  /\ UNCHANGED <<pl, other, merged, hist, nops, favvars, recvars, ctl>>

ShuffleOutcome(songs, max_attempts, o) ==
  ShufflerFinish("shuffle_with_constraints",
                 [input |-> songs, songs |-> o.songs,
                  max_attempts |-> max_attempts, result |-> o.result,
                  path |-> o.path, tried |-> o.tried, possible |-> TRUE])

\* ConstrainedShuffler(max_attempts).shuffle_with_constraints(songs)
ShuffleCall(songs, max_attempts, draws) ==
  ShuffleOutcome(songs, max_attempts,
                 ShuffleWithConstraints(songs, max_attempts, draws))

\* ConstrainedShuffler()._is_arrangement_possible(songs)
ArrangementCall(songs) ==
  ShufflerFinish("_is_arrangement_possible",
                 [input |-> songs, songs |-> songs,
                  max_attempts |-> MaxAttempts, result |-> <<>>,
                  path |-> "_is_arrangement_possible", tried |-> <<>>,
                  possible |-> IsArrangementPossible(songs)])

NextShuffler ==
  \/ \E artists \in ArtistLists(MaxShuffleLen),
        max_attempts \in 0..MaxShuffleAttempts :
       \E draws \in Draws(Len(artists), max_attempts) :
         ShuffleCall(SongList(artists), max_attempts, draws)
  \/ \E artists \in ArtistLists(MaxArrangeLen) :
       ArrangementCall(SongList(artists))

\* calls on constrained shufflers
SpecShuffler == Init /\ [][NextShuffler]_vars

\* a call on the controller ended as r; before: the songs its playlist held
CtlStep(name, i, j, r, t, n) ==
  /\ r.exc # "OutOfNodes"
  /\ ctl' = [r.c EXCEPT !.playlist = Renumber(@)]
  /\ now' = t
  /\ op' = Call(name, i, j, NoSong, r.ret, r.exc)
  /\ hist' = [adds |-> -1, before |-> GetAllSongs(ctl.playlist)]
  /\ nops' = n
  /\ UNCHANGED <<pl, other, merged, fq, fav, ref, recvars, sh>>

CtlFinish(name, i, j, r, t) ==
  /\ nops < MaxCtlOps
  /\ CtlStep(name, i, j, r, t, nops + 1)

CtlPlaySong(s, t) ==
  CtlFinish("play_song", s[5], 0, PlaySong(ctl, s[1], s[2], s[3], s[4], s[5], t),
            t)

CtlPlayNext(force_play_skipped, t) ==
  CtlFinish("play_next", IF force_play_skipped THEN 1 ELSE 0, 0,
            PlayNext(ctl, force_play_skipped, t), t)

CtlSkipSong(id) ==
  CtlFinish("skip_song", id, 0, CtlOk(ControllerSkipSong(ctl, id), RetNone), now)

CtlAddToFavorites(id) ==
  CtlFinish("add_to_favorites", id, 0,
            CtlOk(ControllerAddToFavorites(ctl, id, FavoriteTitle(id),
                                           FavoriteArtist(id)), RetNone), now)

CtlUndoLastPlay == CtlFinish("undo_last_play", 0, 0, UndoLastPlay(ctl), now)

NextCtl ==
  \/ \E s \in ControllerSongs, t \in {now, now + 1} : CtlPlaySong(s, t)
  \/ \E force_play_skipped \in BOOLEAN, t \in {now, now + 1} :
       CtlPlayNext(force_play_skipped, t)
  \/ \E id \in SkipInputs : CtlSkipSong(id)
  \/ CtlAddToFavorites(1)
  \/ CtlUndoLastPlay

\* the playback controller
SpecCtl == Init /\ [][NextCtl]_vars

CtlDeleteSong(i) ==
  CtlFinish("delete_song", i, 0, ControllerDeleteSong(ctl, i), now)

CtlUndoEdit ==
  CtlFinish("undo_last_n_actions", 1, 0, ControllerUndoEdit(ctl), now)

NextCtlEdit ==
  \/ \E s \in ControllerSongs : CtlPlaySong(s, now + 1)
  \/ \E force_play_skipped \in BOOLEAN :
       CtlPlayNext(force_play_skipped, now + 1)
  \/ \E i \in 0..1 : CtlDeleteSong(i)
  \/ CtlUndoEdit
  \/ CtlUndoLastPlay

\* the playback controller, its playlist being edited between the plays
SpecCtlEdit == Init /\ [][NextCtlEdit]_vars

\* play_next is being called with no other call in between
Draining == nops = MaxCtlOps + 1

\* the last of these play_next calls returned None
Drained == Draining /\ op.name = "play_next" /\ op.ret = RetNone

\* one more play_next call, no other call following it, until one returns None
RepeatPlayNext(force_play_skipped, t) ==
  /\ ~Drained
  /\ Len(ctl.history) < MaxPlayed
  /\ CtlStep("play_next", IF force_play_skipped THEN 1 ELSE 0, 0,
             PlayNext(ctl, force_play_skipped, t), t, MaxCtlOps + 1)

RepeatedPlayNext ==
  \E force_play_skipped \in BOOLEAN : RepeatPlayNext(force_play_skipped, now + 1)

NextCtlDrain ==
  \/ nops < MaxSetupOps /\ NextCtl
  \/ RepeatedPlayNext

\* ENABLED <<RepeatedPlayNext>>_vars, written as a state predicate: its other
\* conjuncts assign the next state, and pop_next and the replay of at most
\* three songs into an empty playlist never lack a node (RepeatIsEnabled)
CanRepeat == ~Drained /\ Len(ctl.history) < MaxPlayed

\* WF_vars(RepeatedPlayNext): a caller that repeats play_next makes the next
\* call if it can
RepeatFair == <>[]CanRepeat => []<><<RepeatedPlayNext>>_vars

\* the playback controller, any calls made on it being followed by play_next
\* calls for as long as none of these has returned None
SpecCtlDrain == Init /\ [][NextCtlDrain]_vars /\ RepeatFair

\* CanRepeat implies that a further play_next call can be made
RepeatIsEnabled ==
  CanRepeat => \A force_play_skipped \in BOOLEAN :
                 PlayNext(ctl, force_play_skipped, now).exc # "OutOfNodes"

\* tracker.set_capacity(cap) ended as r
SetCapacityResult(cap, r) ==
  /\ nops < MaxRecOps
  /\ tracker' = r.t
  /\ op' = Call("set_capacity", cap, 0, NoSong, RetNone, r.exc)
  /\ nops' = nops + 1
  /\ UNCHANGED <<pl, other, merged, hist, favvars, rec, explorer, plays,
                 ctlvars>>

SetCapacity(cap) == SetCapacityResult(cap, TrackerSetCapacity(tracker, cap))

\* pl.action_logger.set_max_history(max_history)
SetMaxHistoryCall(max_history) ==
  Finish("set_max_history", max_history, 0, NoSong,
         SetMaxHistory(pl, max_history), NoHist)

NextConfig ==
  \/ \E id \in SkipInputs : SkipSong(id)
  \/ \E cap \in -1..MaxSkipped : SetCapacity(cap)
  \/ \E s \in SongInputs : AddSong(s)
  \/ \E max_history \in -1..MaxHistory : SetMaxHistoryCall(max_history)

\* the sizes of a skipped tracker and of an action log are set
SpecConfig == Init /\ [][NextConfig]_vars

\* ------------------------------------------------------------ observations
\* following next from head ends at None: get_all_songs terminates
NoNodeLoop == Len(HeadChain(pl)) <= MaxNodes

SongTuples(songs) ==
  [i \in 1..Len(songs) |->
     <<songs[i].title, songs[i].artist, songs[i].duration, songs[i].song_id>>]

IsPermutationOf(s, t) ==
  Len(s) = Len(t) /\ \E f \in Perms(Len(t)) : Permuted(t, f) = s

\* size counts the nodes reachable from head, tail is the last of them (head
\* and tail are None when there is none), each prev is the predecessor
ChainWellFormed(p, chain) ==
  /\ Len(chain) <= MaxNodes
  /\ p.size = Len(chain)
  /\ p.tail = IF chain = <<>> THEN 0 ELSE chain[Len(chain)]
  /\ (chain = <<>> => p.head = 0)
  /\ \A i \in 1..Len(chain) :
       p.nodes[chain[i]].prev = IF i = 1 THEN 0 ELSE chain[i - 1]

WellFormed(p) == ChainWellFormed(p, HeadChain(p))

\* -------------------------------------------------------------- properties

\* C1: after any sequence of Playlist operations, rejected and failing calls
\* included, size is the number of nodes reachable from head, tail is the last
\* of them (both ends None when empty) and each prev is the predecessor.
C1_ListInvariants == WellFormed(pl)

\* C2: a playlist built from empty by k >= 1 successful add_song calls and
\* nothing else is empty after undo_last_n_actions(k).
C2_UndoOfAddsEmpties ==
  [][(hist.adds >= 1 /\ op'.name = "undo_last_n_actions" /\ op'.i = hist.adds)
       => (op'.exc = "none" /\ Songs(pl') = <<>>)]_vars

\* C3: undo_last_n_actions(n), n > 0, on a log of h entries returns the kinds
\* of the min(n, h) newest entries, newest first, and leaves exactly the
\* h - min(n, h) oldest entries in the log; n <= 0 returns [] and changes
\* nothing.
C3_UndoPopsNewest ==
  [][op'.name = "undo_last_n_actions"
       => IF op'.i <= 0
          THEN op'.ret = RetList(<<>>) /\ pl' = pl
          ELSE /\ op'.exc = "none"
               /\ op'.ret = RetList([k \in 1..Min(op'.i, Len(pl.log)) |->
                                       pl.log[Len(pl.log) - k + 1].kind])
               /\ pl'.log = SubSeq(pl.log, 1,
                                   Len(pl.log) - Min(op'.i, Len(pl.log)))]_vars

\* the song (title, artist, duration, id) is in the lookup and dedupe index
Registered(p, t) ==
  /\ t[1] \in DOMAIN p.title_map
  /\ MakeKey(t[1], t[2]) \in DOMAIN p.key_to_song_id
  /\ (t[4] # None => /\ t[4] \in DOMAIN p.id_map
                     /\ p.key_to_song_id[MakeKey(t[1], t[2])] = t[4])

\* C4: delete_song(i) at a valid index followed at once by
\* undo_last_n_actions(1) gives back the song sequence there was before the
\* delete, the restored song being registered again in the lookup and dedupe
\* index.
C4_DeleteThenUndoRestores ==
  [][(op.name = "delete_song" /\ op.exc = "none"
        /\ op'.name = "undo_last_n_actions" /\ op'.i = 1)
       => /\ op'.exc = "none"
          /\ Songs(pl') = hist.before
          /\ Registered(pl', hist.before[op.i + 1])]_vars

\* what add_song leaves when it returns None: one more song, "add" logged
AddedAndLogged(p, q) ==
  /\ q.size = p.size + 1
  /\ q.log # <<>>
  /\ q.log[Len(q.log)].kind = "add"

\* add_song rejects: nothing changes
RejectsUnchanged(o, p, q) ==
  /\ o.ret.tag \in {"BLOCKED_ARTIST", "id"} => q = p
  /\ (o.exc = "none" /\ o.ret = RetNone) => AddedAndLogged(p, q)

\* C5: add_song returns "BLOCKED_ARTIST" for a blocked artist and
\* the existing song's id when, under 'first', a song with the same
\* normalized (title, artist) is registered, in both cases leaving sequence,
\* index and log as they were; only a call returning None appends and logs.
C5_RejectedAddChangesNothing ==
  [][op'.name = "add_song"
       => /\ IsBlocked(pl, op'.song.artist) => op'.ret = RetBlocked /\ pl' = pl
          /\ (~IsBlocked(pl, op'.song.artist) /\ pl.keep = "first"
                /\ IsDuplicate(pl, op'.song.title, op'.song.artist))
               => /\ op'.ret.id =
                       pl.key_to_song_id[MakeKey(op'.song.title, op'.song.artist)]
                  /\ pl' = pl
          /\ RejectsUnchanged(op', pl, pl')]_vars

HasKey(songs, key) ==
  \E i \in 1..Len(songs) : MakeKey(songs[i][1], songs[i][2]) = key

\* C7: once delete_song has removed a song that has an id, add_song of a song
\* with the same normalized (title, artist) under 'first' is not rejected as
\* a duplicate, whatever other songs are or were in the playlist.
C7_DeleteFreesKey ==
  [][(op.name = "delete_song" /\ op.exc = "none"
        /\ hist.before[op.i + 1][4] # None
        /\ op'.name = "add_song"
        /\ MakeKey(op'.song.title, op'.song.artist)
             = MakeKey(hist.before[op.i + 1][1], hist.before[op.i + 1][2])
        /\ ~HasKey(Songs(pl), MakeKey(op'.song.title, op'.song.artist))
        /\ pl.keep = "first")
       => op'.ret.tag # "id"]_vars

\* C8: shuffle_with_artist_constraints leaves the playlist holding exactly
\* the songs it held before (same multiset, same length), in the order of the
\* list it returns.
C8_ShuffleKeepsSongs ==
  [][op'.name = "shuffle_with_artist_constraints"
       => /\ op'.exc = "none"
          /\ Songs(pl') = SongTuples(op'.ret.list)
          /\ IsPermutationOf(Songs(pl'), Songs(pl))]_vars

\* the alternation of C9, 1-based: A[k], B[k] in turn while both last, then
\* the rest of the longer
Alternated(A, B, m) ==
  [i \in 1..(Len(A) + Len(B)) |->
     IF i <= 2 * m THEN (IF i % 2 = 1 THEN A[(i + 1) \div 2] ELSE B[i \div 2])
     ELSE IF Len(A) > m THEN A[i - m] ELSE B[i - m]]

\* C9: A.merge_alternately(B) returns a new playlist of length a + b whose
\* element 2k is A[k] and element 2k+1 is B[k] for k < min(a, b), then the
\* rest of the longer input in order; A and B are unchanged.
C9_MergeAlternates ==
  [][op'.name = "merge_alternately"
       => /\ op'.exc = "none"
          /\ Songs(merged') = Alternated(Songs(pl), Songs(other),
                                         Min(Len(Songs(pl)), Len(Songs(other))))
          /\ pl' = pl
          /\ other' = other]_vars

\* C10: whatever add_to_favorites, remove_from_favorites, record_listen,
\* get_top_n and clear calls came before, get_top_n(n) returns at most n
\* entries (none for n <= 0), each of a song that is a favorite, with listen
\* times that do not increase along the result.
C10_TopNSound ==
  op.name = "get_top_n"
    => /\ Len(op.ret.list) <= (IF op.i > 0 THEN op.i ELSE 0)
       /\ \A k \in 1..Len(op.ret.list) :
            op.ret.list[k].song_id \in DOMAIN fq.favorites
       /\ \A k \in 1..(Len(op.ret.list) - 1) :
            op.ret.list[k].total_listen_time
              >= op.ret.list[k + 1].total_listen_time

\* get_top_n returned two favorites, the more listened first
C10_Witness ==
  /\ op.name = "get_top_n"
  /\ Len(op.ret.list) = 2
  /\ op.ret.list[1].total_listen_time > op.ret.list[2].total_listen_time
  /\ Len(fq.heap) >= 2

\* a heap entry whose carried total is not the song's current total, or whose
\* song is not a favorite
HasStaleEntry(q) == \E k \in 1..Len(q.heap) : ~IsValidEntry(q, q.heap[k])

\* C11: every entry get_top_n returns carries the cumulative total the
\* authoritative map holds for its song at that moment; an entry carrying
\* another (older) total is not returned.
C11_TopNCarriesCurrentTotal ==
  op.name = "get_top_n"
    => \A k \in 1..Len(op.ret.list) :
         /\ op.ret.list[k].song_id \in DOMAIN fq.song_listen_times
         /\ op.ret.list[k].total_listen_time
              = fq.song_listen_times[op.ret.list[k].song_id]

\* get_top_n returned a song of which the heap also holds an older total
C11_Witness ==
  /\ op.name = "get_top_n"
  /\ op.ret.list # <<>>
  /\ \E k \in 1..Len(fq.heap) :
       /\ fq.heap[k][3] = op.ret.list[1].song_id
       /\ -fq.heap[k][1] < op.ret.list[1].total_listen_time

\* C12: two get_top_n(n) calls in a row, with no other call between them,
\* return the same list, stale heap entries present or not.
C12_RepeatedReadSame ==
  [][(op.name = "get_top_n" /\ op'.name = "get_top_n" /\ op'.i = op.i)
       => op'.ret = op.ret]_vars

\* the second of two equal reads returned a song while the heap held a stale
\* entry
C12_Witness ==
  /\ op.name = "get_top_n"
  /\ fav.reads >= 2
  /\ op.ret.list # <<>>
  /\ HasStaleEntry(fq)

\* C13: a get_top_n call made in one run and not in the other leaves every
\* later get_top_n call of the two runs with the same result.
C13_ReadLeavesLaterResults ==
  (op.name = "get_top_n" /\ ~ref.extra) => op.ret = ref.ret

\* C14: record_listen(id, d) for an id that is not a favorite leaves the
\* listen-time map, the membership map and the heap as they were.
C14_NonFavoriteListenNoOp ==
  [][(op'.name = "record_listen" /\ op'.i \notin DOMAIN fq.favorites)
       => fq' = fq]_vars

\* record_listen with a positive delta for a removed favorite that has a
\* total and heap entries
C14_Witness ==
  /\ op.name = "record_listen"
  /\ op.j > 0
  /\ op.i \notin DOMAIN fq.favorites
  /\ op.i \in DOMAIN fq.song_listen_times
  /\ \E k \in 1..Len(fq.heap) : fq.heap[k][3] = op.i

\* the authoritative map holds, for every id, the sum of the counted deltas
TotalsAreSums(q, h) ==
  \A id \in FavoriteIds :
    IF id \in DOMAIN q.song_listen_times
    THEN q.song_listen_times[id] = h.listened[id]
    ELSE h.listened[id] = 0

\* C15: the cumulative listen time of every id is the sum of the deltas of
\* the record_listen calls made for it while it was a favorite since the last
\* clear; remove_from_favorites changes neither the map nor the heap,
\* get_top_n does not change the map, and add_to_favorites keeps the total of
\* an id that has one.
C15_ListenTimeIsSumOfDeltas ==
  [][/\ TotalsAreSums(fq', fav')
     /\ op'.name = "remove_from_favorites"
          => /\ fq'.song_listen_times = fq.song_listen_times
             /\ fq'.heap = fq.heap
     /\ op'.name = "get_top_n" => fq'.song_listen_times = fq.song_listen_times
     /\ (op'.name = "add_to_favorites" /\ op'.i \in DOMAIN fq.song_listen_times)
          => fq'.song_listen_times = fq.song_listen_times]_vars

\* a favorite with a positive total was removed and its total is still there
C15_Witness ==
  /\ op.name = "remove_from_favorites"
  /\ op.i \notin DOMAIN fq.favorites
  /\ op.i \in DOMAIN fq.song_listen_times
  /\ fq.song_listen_times[op.i] > 0
  /\ fq.song_listen_times[op.i] = fav.listened[op.i]

\* C16: of two different songs get_top_n returns with equal cumulative listen
\* time, the one whose total was recorded by the later record_listen call
\* comes first.
C16_LaterListenWinsTie ==
  op.name = "get_top_n"
    => \A k, l \in 1..Len(op.ret.list) :
         (/\ k < l
          /\ op.ret.list[k].song_id # op.ret.list[l].song_id
          /\ op.ret.list[k].total_listen_time = op.ret.list[l].total_listen_time)
           => fav.last[op.ret.list[k].song_id] > fav.last[op.ret.list[l].song_id]

\* C17: add_to_favorites(id, ...) made a second time changes nothing, and
\* get_top_n(n) returns right after the call what it would have returned
\* right before it.
C17_AddKeepsRanking ==
  [][op'.name = "add_to_favorites"
       => /\ AddToFavorites(fq', op'.i, FavoriteTitle(op'.i),
                            FavoriteArtist(op'.i)) = fq'
          /\ \A n \in 0..MaxTopN :
               GetTopN(fq', n).result = GetTopN(fq, n).result]_vars

\* C18: the play window holds at most window_size entries, the
\* min(number of plays, window_size) most recent plays in play order, and the
\* played set holds every id passed to record_play, evicted or not.
C18_WindowHoldsRecentPlays ==
  /\ Len(rec.play_window) = Min(Len(plays), rec.window_size)
  /\ \A k \in 1..Len(rec.play_window) :
       rec.play_window[k][1] = plays[Len(plays) - Len(rec.play_window) + k]
  /\ Range(plays) \subseteq rec.played_set

\* a play evicted a song that is in the window no more
C18_Witness ==
  /\ op.name = "record_play"
  /\ Len(plays) > rec.window_size
  /\ \A k \in 1..Len(rec.play_window) : rec.play_window[k][1] # plays[1]
  /\ plays[1] \in rec.played_set

\* the ids of the songs in the active playlist
ActiveIds(p) == {Songs(p)[k][4] : k \in 1..Len(Songs(p))}

\* C19: recommend returns no song of the played set, no song the tracker
\* reports as recently skipped and, when exclude_active_playlist is true, no
\* song whose id is in the active playlist.
C19_RecommendExcludes ==
  op.name \in {"recommend", "recommend(exclude_active_playlist=False)"}
    => \A k \in 1..Len(op.ret.list) :
         /\ op.ret.list[k].song_id \notin rec.played_set
         /\ ~IsRecentlySkipped(tracker, op.ret.list[k].song_id)
         /\ op.name = "recommend" => op.ret.list[k].song_id \notin ActiveIds(pl)

\* recommend returned a song while another song the index holds under the
\* seed's genre was skipped or in the active playlist
C19_Witness ==
  /\ op.name = "recommend"
  /\ op.ret.list # <<>>
  /\ \E c \in RecIds \ rec.played_set :
       /\ c \in DOMAIN explorer.song_to_paths
       /\ c \in DOMAIN rec.song_metadata
       /\ IsRecentlySkipped(tracker, c) \/ c \in ActiveIds(pl)
       /\ \E seed \in Range(SeedSongs(rec, op.i)) :
            c \in GetSimilarSongs(rec, explorer, seed)

\* the candidate is returned for the seed, unplayed, not skipped, not in the
\* active playlist and classified under the seed's genre and mood
EligibleFor(seed, c) ==
  /\ seed \in DOMAIN rec.song_metadata
  /\ rec.song_metadata[seed].genre # <<>>
  /\ rec.song_metadata[seed].mood # <<>>
  /\ c \in GetSimilarSongs(rec, explorer, seed)
  /\ c \notin rec.played_set
  /\ ~IsRecentlySkipped(tracker, c)
  /\ c \notin ActiveIds(pl)
  /\ normalize_text(MetaOf(c).genre)
       = normalize_text(rec.song_metadata[seed].genre)
  /\ normalize_text(MetaOf(c).mood)
       = normalize_text(rec.song_metadata[seed].mood)

\* C20: a candidate the index returns for a seed recorded with genre and
\* mood, that is unplayed, not skipped, not in the active playlist and
\* classified under the same genre and mood, is returned by recommend with a
\* score of at least 1.6.
C20_SharedGenreMoodScores ==
  op.name \in {"recommend", "recommend(exclude_active_playlist=False)"}
    => \A seed \in Range(SeedSongs(rec, op.i)), c \in RecIds :
         EligibleFor(seed, c)
           => \E k \in 1..Len(op.ret.list) :
                /\ op.ret.list[k].song_id = c
                /\ op.ret.list[k].score >= 160

\* two adjacent songs by the same artist, compared case-insensitively
AdjacentSameArtist(songs) ==
  \E i \in 1..(Len(songs) - 1) :
    LowerStr(songs[i].artist) = LowerStr(songs[i + 1].artist)

\* the most frequent artist's count is at most ceil(n/2)
MostFrequentWithinHalf(songs) ==
  \A i \in 1..Len(songs) :
    2 * Cardinality({j \in 1..Len(songs) :
                       LowerStr(songs[j].artist) = LowerStr(songs[i].artist)})
      <= Len(songs) + 1

ShuffleReturned == sh.path \in {"short", "impossible", "accepted", "exhausted"}

\* C21: on every path (input of length <= 1, precheck failure, accepted
\* attempt, attempt cap exhausted) shuffle_with_constraints returns a
\* permutation of its input, and the input list is as it was.
C21_ShuffleReturnsPermutation ==
  ShuffleReturned
    => /\ IsPermutationOf(sh.result, sh.input)
       /\ sh.songs = sh.input

\* the precheck failed and the one shuffle drew another order than the input's
C21_Witness ==
  /\ sh.path = "impossible"
  /\ Len(sh.input) = 3
  /\ sh.result # sh.input

C23_MembershipIsRecency ==
  /\ Len(GetRecentlySkipped(tracker)) <= tracker.capacity
  /\ \A id \in RecIds :
       IsRecentlySkipped(tracker, id) <=> id \in Range(GetRecentlySkipped(tracker))

\* the head of the controller's playlist is a recently skipped song
HeadIsSkipped(c) ==
  /\ ~IsEmpty(c.playlist)
  /\ Head(GetAllSongs(c.playlist)).song_id # None
  /\ IsRecentlySkipped(c.skipped_tracker, Head(GetAllSongs(c.playlist)).song_id)

\* the call recorded a play of song s
PlayRecorded(c, d, s) ==
  /\ d.history = <<s>> \o c.history
  /\ d.play_count[s.obj] = c.play_count[s.obj] + 1

NothingPlayed(c, d) ==
  /\ d.history = c.history
  /\ d.play_count = c.play_count
  /\ d.favorite_queue = c.favorite_queue

C25_UndoLastPlayReadds ==
  [][op'.name = "undo_last_play"
       => IF ctl.history = <<>>
          THEN op'.ret = RetFalse /\ ctl' = ctl
          ELSE /\ op'.ret = RetTrue
               /\ ctl'.history = Tail(ctl.history)
               /\ GetAllSongs(ctl'.playlist)
                    = Append(GetAllSongs(ctl.playlist), Head(ctl.history))]_vars

\* the call of `name` on the playlist logs an action of this kind
KindLogged(name) ==
  CASE name = "add_song" -> "add"
    [] name = "delete_song" -> "delete"
    [] name = "move_song" -> "move"
    [] OTHER -> "reverse"

\* the call o returned after logging one action
LoggedOne(o) ==
  /\ o.exc = "none"
  /\ \/ o.name = "add_song" /\ o.ret = RetNone
     \/ o.name \in {"delete_song", "move_song", "reverse_playlist"}

\* C26: the action log never holds more than max_history entries; logging
\* into a full log evicts exactly the oldest entry and keeps the others in
\* chronological order, so that no more than the max_history newest actions
\* can be undone.
C26_LogKeepsNewest ==
  [][/\ Len(pl'.log) <= pl'.max_history
     /\ LoggedOne(op')
          => /\ pl'.log # <<>>
             /\ pl'.log[Len(pl'.log)].kind = KindLogged(op'.name)
             /\ SubSeq(pl'.log, 1, Len(pl'.log) - 1)
                  = IF Len(pl.log) = pl.max_history THEN Tail(pl.log)
                    ELSE pl.log
     /\ op'.name = "undo_last_n_actions"
          => Len(op'.ret.list) <= pl.max_history]_vars

\* a third add_song was logged into a log of two
C26_Witness ==
  /\ hist.adds = 3
  /\ op.name = "add_song"
  /\ Len(pl.log) = pl.max_history

\* C27: configuring a bounded structure with a non-positive size, here
\* through ActionLogger.set_max_history and RecentlySkippedTracker.set_capacity,
\* raises an error and leaves the structure's contents (the logged actions,
\* the skipped entries and the membership set) unchanged.
C27_NonPositiveSizeRaises ==
  [][(op'.name \in {"set_max_history", "set_capacity"} /\ op'.i <= 0)
       => /\ op'.exc = "ValueError"
          /\ pl'.log = pl.log
          /\ tracker'.deque = tracker.deque
          /\ tracker'.set = tracker.set]_vars

\* C28: _is_arrangement_possible(songs) returns True exactly when some
\* permutation of songs has no two adjacent songs by the same artist
\* (case-insensitively), and there is such a permutation iff the most
\* frequent artist's count is at most ceil(n/2).
C28_PossibleIffArrangementExists ==
  sh.path = "_is_arrangement_possible"
    => /\ sh.possible
            <=> \E f \in Perms(Len(sh.input)) :
                  ~AdjacentSameArtist(Permuted(sh.input, f))
       /\ MostFrequentWithinHalf(sh.input)
            <=> \E f \in Perms(Len(sh.input)) :
                  ~AdjacentSameArtist(Permuted(sh.input, f))

\* True was returned for a list that holds the most frequent artist exactly
\* ceil(n/2) times, under two spellings, and has their songs adjacent
C28_Witness ==
  /\ sh.path = "_is_arrangement_possible"
  /\ sh.possible
  /\ Len(sh.input) = 3
  /\ sh.input[1].artist = <<"x">>
  /\ sh.input[2].artist = <<"X">>
  /\ sh.input[3].artist = <<"y">>

\* the sequence s with its element at 0-based index f put at 0-based index t
MovedTo(s, f, t) ==
  InsertAt(SubSeq(s, 1, f) \o SubSeq(s, f + 2, Len(s)), s[f + 1], t)

\* C29: move_song(f, t) with valid indices puts the song formerly at index f
\* at index t and keeps all other songs in their relative order; undoing that
\* move restores the previous order.
C29_MoveRelocates ==
  [][/\ (op'.name = "move_song" /\ op'.i >= 0 /\ op'.i < pl.size
           /\ op'.j >= 0 /\ op'.j < pl.size)
          => /\ op'.exc = "none"
             /\ op'.i < Len(Songs(pl))
             /\ op'.j < Len(Songs(pl))
             /\ Songs(pl') = MovedTo(Songs(pl), op'.i, op'.j)
     /\ (op.name = "move_song" /\ op.exc = "none"
           /\ op'.name = "undo_last_n_actions" /\ op'.i = 1)
          => /\ op'.exc = "none"
             /\ Songs(pl') = hist.before]_vars

ReverseOf(s) == [i \in 1..Len(s) |-> s[Len(s) + 1 - i]]

\* head is the node of the song `first` and tail the node of the song `last`
EndsAre(p, first, last) ==
  /\ p.head # 0
  /\ p.tail # 0
  /\ p.nodes[p.head].song = first
  /\ p.nodes[p.tail].song = last

\* C30: reverse_playlist reverses the song order (head and tail swapped);
\* applying it twice, or applying it once and undoing it, restores the
\* original order, and it succeeds as a no-op on an empty playlist.
C30_ReverseIsInvolution ==
  [][/\ op'.name = "reverse_playlist"
          => /\ op'.exc = "none"
             /\ Songs(pl') = ReverseOf(Songs(pl))
             /\ IF IsEmpty(pl) THEN pl'.head = 0 /\ pl'.tail = 0
                ELSE EndsAre(pl', GetAllSongs(pl)[Len(GetAllSongs(pl))],
                             GetAllSongs(pl)[1])
     /\ (op.name = "reverse_playlist" /\ op.exc = "none"
           /\ (\/ op'.name = "reverse_playlist"
               \/ op'.name = "undo_last_n_actions" /\ op'.i = 1))
          => /\ op'.exc = "none"
             /\ Songs(pl') = hist.before]_vars

\* a playlist of at least two songs, the first differing from the last, was
\* reversed
C30_Witness ==
  /\ op.name = "reverse_playlist"
  /\ op.exc = "none"
  /\ Len(hist.before) >= 2
  /\ hist.before[1] # hist.before[Len(hist.before)]
  /\ Songs(pl) = ReverseOf(hist.before)

\* the play_next call from c to d left more in the playlist than the songs
\* behind the head it popped
Refilled(c, d) ==
  GetAllSongs(d.playlist)
    # IF IsEmpty(c.playlist) THEN <<>> ELSE Tail(GetAllSongs(c.playlist))

\* no song of the playlist is one the tracker reports as recently skipped
NoneSkipped(c) ==
  \A i \in 1..Len(GetAllSongs(c.playlist)) :
    ~IsRecentlySkipped(c.skipped_tracker, GetAllSongs(c.playlist)[i].song_id)

\* C31: auto replay fires at most once in a controller's lifetime: a
\* play_next call that re-adds songs from the history to the playlist it
\* emptied finds auto_replayed unset and sets it, no call unsets it, and
\* the songs re-added are songs of the history that are not recently skipped.
C31_AutoReplayOnce ==
  [][/\ ctl.auto_replayed => ctl'.auto_replayed
     /\ (op'.name = "play_next" /\ Refilled(ctl, ctl'))
          => /\ ~ctl.auto_replayed
             /\ ctl'.auto_replayed
             /\ Len(GetAllSongs(ctl.playlist)) = 1
             /\ NoneSkipped(ctl')
             /\ Range(GetAllSongs(ctl'.playlist)) \subseteq Range(ctl'.history)]_vars

\* auto replay has re-added songs and left out a calm song of the history
\* that is recently skipped
C31_Witness ==
  /\ op.name = "play_next"
  /\ Len(hist.before) = 1
  /\ GetAllSongs(ctl.playlist) # <<>>
  /\ \E i \in 1..Len(ctl.history) :
       /\ IsCalm(ctl.history[i].genre)
       /\ IsRecentlySkipped(ctl.skipped_tracker, ctl.history[i].song_id)

\* C32: play_next called repeatedly, no other call in between, on a
\* controller in any state its calls can reach, eventually returns None.
C32_RepeatedPlayNextEnds == Draining ~> Drained

\* the repeated play_next calls have played a song for at least the third
\* time, auto replay having re-added it, and have then returned None
C32_Witness ==
  /\ Drained
  /\ ctl.auto_replayed
  /\ IsEmpty(ctl.playlist)
  /\ \E o \in 1..Len(ctl.play_count) : ctl.play_count[o] >= 3

\* the classification song_id was added with equals criteria in each field
\* criteria gives, both normalized
Matches(song_id, criteria) ==
  \A field \in DOMAIN criteria :
    normalize_text(MetaOf(song_id)[field]) = normalize_text(criteria[field])

\* C33: search(criteria), criteria giving at least one field, returns exactly
\* the songs added whose classification equals every field criteria gives;
\* a song whose mood differs from the mood criteria gives is not returned.
C33_SearchReturnsMatches ==
  (op.name = "search" /\ DOMAIN op.i # {})
    => Range(op.ret.list)
         = {id \in DOMAIN explorer.song_to_paths : Matches(id, op.i)}

\* C34: add_song and add_existing_song never reject a song without a
\* song_id as a duplicate, whatever songs are registered: they return no
\* existing song's id for it.
C34_IdlessNeverDuplicate ==
  [][(op'.name \in {"add_song", "add_existing_song"}
        /\ op'.song.song_id = None)
       => op'.ret.tag # "id"]_vars

\* the play counts of the songs of the controller's playlist, in list order
PlayCounts(c, songs) == [i \in 1..Len(songs) |-> c.play_count[songs[i].obj]]

\* C35: no call makes the play count of a Song object smaller, and a song
\* that was played, deleted from the playlist and restored by the undo that
\* follows has the play count it had before the delete: the playlist lists
\* the play counts it listed before.
C35_PlayCountKept ==
  [][/\ \A obj \in 1..Len(ctl.play_count) :
          ctl'.play_count[obj] >= ctl.play_count[obj]
     /\ (op.name = "delete_song" /\ op.exc = "none"
           /\ op'.name = "undo_last_n_actions" /\ op'.exc = "none")
          => PlayCounts(ctl', GetAllSongs(ctl'.playlist))
               = PlayCounts(ctl, hist.before)]_vars

\* C36: under dedupe policy 'first', every song carrying an id, no two songs
\* of the playlist have the same normalized (title, artist).
C36_NoTwoSongsOfOneKey ==
  pl.keep = "first"
    => \A i, j \in 1..Len(GetAllSongs(pl)) :
         MakeKey(GetAllSongs(pl)[i].title, GetAllSongs(pl)[i].artist)
           = MakeKey(GetAllSongs(pl)[j].title, GetAllSongs(pl)[j].artist)
         => i = j

\* C37: no result of get_top_n holds the same song_id twice, zero-length
\* listens being among the listens recorded.
C37_TopNWithoutRepeats ==
  op.name = "get_top_n"
    => \A k, m \in 1..Len(op.ret.list) :
         op.ret.list[k].song_id = op.ret.list[m].song_id => k = m

\* C38: get_top_n(n), n being at least the number of favorites, returns
\* every favorite for which a listen was recorded since the last clear.
C38_TopNOmitsNoFavorite ==
  (op.name = "get_top_n" /\ op.i >= Cardinality(DOMAIN fq.favorites))
    => \A id \in DOMAIN fq.favorites :
         fav.last[id] # 0
           => \E k \in 1..Len(op.ret.list) : op.ret.list[k].song_id = id

\* how often s occurs among songs
Occurrences(songs, s) == Cardinality({i \in 1..Len(songs) : songs[i] = s})

\* C39: undo_last_n_actions(k) called after shuffle_with_artist_constraints
\* makes no song occur in the playlist more often than it did before the
\* shuffle, whatever k.
C39_UndoAfterShuffleAddsNoCopy ==
  [][(op.name = "shuffle_with_artist_constraints" /\ op.exc = "none"
        /\ op'.name = "undo_last_n_actions")
       => \A i \in 1..Len(Songs(pl')) :
            Occurrences(Songs(pl'), Songs(pl')[i])
              <= Occurrences(hist.before, Songs(pl')[i])]_vars

\* the scores do not increase along the list
NonIncreasing(l) == \A k \in 1..(Len(l) - 1) : l[k].score >= l[k + 1].score

\* C40: get_popular_songs() with its default flags returns a list that is not
\* empty and is ordered by non-increasing cumulative listen time whenever a
\* song that is not recently skipped has accumulated listen time through
\* record_play.
C40_PopularSongsFallback ==
  (op.name = "get_popular_songs" /\ op.j = 3 /\ op.i = 0
     /\ \E id \in DOMAIN rec.total_listen_time :
          /\ rec.total_listen_time[id] > 0
          /\ ~IsRecentlySkipped(tracker, id))
    => /\ op.ret.list # <<>>
       /\ NonIncreasing(op.ret.list)

====
